---- MODULE Spec2Model ----
(***************************************************************************)
(* T20 score predictor (t20-score-predictor/server.js): the room state,    *)
(* its persistence round trip and the request handlers, as a state         *)
(* machine.  One step is one whole request served alone: readData, the     *)
(* handler body, saveData.  SpecLedger and SpecRoom run every operation,   *)
(* each with the requests that build the states its properties are about;  *)
(* SpecScoring, SpecBoard, SpecFeed and SpecImport are further slices,     *)
(* SpecAsync serves requests that overlap, and SpecStored runs the         *)
(* normalizer on stored records of any shape.                              *)
(*                                                                         *)
(* Conventions                                                             *)
(*   - an absent value (null / undefined) is None == <<>>, a present one   *)
(*     Some(v) == <<v>>;                                                   *)
(*   - instants are integer minutes; Date.now() is read from the clock     *)
(*     `now`, which may advance while a handler runs;                      *)
(*   - request numbers (scores, bounds) are counted in halves, so that     *)
(*     Math.round is a real conversion: 3 is 1.5 and rounds to 2; stored   *)
(*     predictions and innings scores are whole numbers;                   *)
(*   - makeId() yields ids that are fresh in the room; the model numbers   *)
(*     them 1, 2, ... within the current room, 0 is an id of no object.    *)
(***************************************************************************)
EXTENDS Integers, Sequences, FiniteSets, TLC

VARIABLES
    useDb,   \* USE_DB: the persistence backend in use (fixed per run)
    disk,    \* the persisted room: what readData returns
    now,     \* the clock, in minutes
    resp,    \* the request served last and its response
    inflight \* per connection: the request being served across its awaits

vars == <<useDb, disk, now, resp, inflight>>

\* ---------------------------------------------------------------- bounds
MaxTime == 1
MaxMatches == 1
MaxPredictors == 1
MaxRivals == 3
MaxFixtures == 2
MaxProcs == 2
MaxOverlap == 1

\* ------------------------------------------------------- program constants
MinPlayers == 4
MinPinLength == 3

\* ------------------------------------------------------------ absent values
None == <<>>
Some(v) == <<v>>
IsSome(o) == o # <<>>
Val(o) == o[1]
Or(a, b) == IF IsSome(a) THEN a ELSE b

Max(a, b) == IF a >= b THEN a ELSE b
Abs(a) == IF a >= 0 THEN a ELSE -a

\* Math.round on a number given in halves: x.5 rounds up.
Truncate(h) == h \div 2
Round(h) == (h + 1) \div 2

\* -------------------------------------------------------------- input sets
ReqPlayerIds == 0..MaxPredictors
ReqMatchIds == 0..MaxMatches
TeamNames == {"A", "B", "C"}
PinInputs == {"", "123", "999"}
RawScores == {None, Some(1), Some(2), Some(3), Some(4), Some(5)}
MinScoreInputs == {2}
MaxScoreInputs == {4}
LockOffsetInputs == {1}
DateInputs == {None, Some(2)}
InningsInputs == {1, 2}

hashPin(pin) == <<"sha256", pin>>

defaultSettings ==
    [ usePin |-> FALSE,
      adminPinHash |-> None,
      bonusExact |-> 0,
      minScore |-> 120,
      maxScore |-> 600,
      lockMinutesBeforeStart |-> 15,
      tossAutoEnabled |-> TRUE,
      lastTossSync |-> None ]

defaultData == [ settings |-> defaultSettings, players |-> <<>>, matches |-> <<>> ]

ensureAdminAlwaysTrue(data, pin) == TRUE
ensureAdmin(data, pin) ==
    IF ~data.settings.usePin THEN TRUE
    ELSE IF pin = "" THEN FALSE
    ELSE Some(hashPin(pin)) = data.settings.adminPinHash

computeLockTime(matchDate, lockMinutes) ==
    IF matchDate = None THEN None ELSE Some(Val(matchDate) - lockMinutes)

\* ------------------------------------------------------------ innings rules
\* `t` is the value Date.now() returns inside the call.
isInningsLockedByStatusOnly(innings, t) == innings.status \in {"locked", "scored"}
isInningsLocked(innings, t) ==
    \/ innings.status \in {"locked", "scored"}
    \/ /\ innings.status = "open"
       /\ IsSome(innings.lockTime)
       /\ t >= Val(innings.lockTime)

normalizeInningsStatusAnyOpen(innings, t) ==
    IF innings.status = "open" THEN [innings EXCEPT !.status = "locked"] ELSE innings
normalizeInningsStatus(innings, t) ==
    IF innings.status = "open" /\ isInningsLocked(innings, t)
    THEN [innings EXCEPT !.status = "locked"]
    ELSE innings

getBattingTeams(match) ==
    IF match.toss = None THEN None
    ELSE LET winner == Val(match.toss).winner
             decision == Val(match.toss).decision
             other == IF winner = match.teamA THEN match.teamB ELSE match.teamA
         IN  IF winner = "" \/ decision = "" THEN None
             ELSE IF decision = "bat" THEN Some([innings1 |-> winner, innings2 |-> other])
             ELSE IF decision = "field" THEN Some([innings1 |-> other, innings2 |-> winner])
             ELSE None

\* normalizeMatch on a record that already has innings1, innings2 and the two
\* prediction maps (every record the handlers and rowToMatch produce has them):
\* the promotion of a pending innings2 and the two auto-locks.  t1 and t2 are
\* the clock readings of the two normalizeInningsStatus calls.
PromoteInnings2(match) ==
    IF match.innings1.status = "scored" /\ match.innings2.status = "pending"
    THEN [match EXCEPT !.innings2.status = "open"]
    ELSE match

normalizeMatch(match, settings, t1, t2) ==
    LET m == PromoteInnings2(match)
    IN  [m EXCEPT !.innings1 = normalizeInningsStatus(m.innings1, t1),
                  !.innings2 = normalizeInningsStatus(m.innings2, t2)]

\* ------------------------------------------------- records of any provenance
\* normalizeMatch on a stored record of any shape.  The record is
\*   [status, lockTime, actualScore, innings2LockTime, innings2Score,
\*    innings1, innings2, predictions, toss]
\* where a field the record does not have (or holds as null) is None.
\* predictions is [shape, innings1, innings2, flat] when present: shape is
\* "scalar" (typeof is not "object"), "array" or "object"; of an object,
\* innings1 and innings2 are its entries under these keys and flat its other
\* entries (player id to score).
EmptyPredictions == [shape |-> "object", innings1 |-> None, innings2 |-> None, flat |-> <<>>]

\* if (!match.innings1) match.innings1 = {status, lockTime, score}
SynthesizeInnings1(m) ==
    IF IsSome(m.innings1) THEN m
    ELSE [m EXCEPT !.innings1 = Some([ status |-> IF IsSome(m.status) THEN Val(m.status)
                                                  ELSE "open",
                                       lockTime |-> m.lockTime,
                                       score |-> m.actualScore ])]

\* if (!match.innings2) match.innings2 = {status: "pending", ...}
SynthesizeInnings2(m) ==
    IF IsSome(m.innings2) THEN m
    ELSE [m EXCEPT !.innings2 = Some([ status |-> "pending",
                                       lockTime |-> m.innings2LockTime,
                                       score |-> m.innings2Score ])]

\* The three steps on match.predictions.
SynthesizePredictionsDropLegacy(m) ==
    [m EXCEPT !.predictions =
        Some([shape |-> "object",
              innings1 |-> IF IsSome(@) /\ Val(@).shape = "object" /\ IsSome(Val(@).innings1)
                           THEN Val(@).innings1 ELSE Some(<<>>),
              innings2 |-> IF IsSome(@) /\ Val(@).shape = "object" /\ IsSome(Val(@).innings2)
                           THEN Val(@).innings2 ELSE Some(<<>>),
              flat |-> <<>>])]
SynthesizePredictions(m) ==
    LET object == IF m.predictions = None \/ Val(m.predictions).shape # "object"
                  THEN EmptyPredictions
                  ELSE Val(m.predictions)
        keyed == IF object.innings1 = None /\ object.innings2 = None
                 THEN [shape |-> "object", innings1 |-> Some(object.flat),
                       innings2 |-> Some(<<>>), flat |-> <<>>]
                 ELSE object
    IN  [m EXCEPT !.predictions =
            Some([keyed EXCEPT !.innings1 = Or(@, Some(<<>>)),
                               !.innings2 = Or(@, Some(<<>>))])]

\* The promotion of a pending innings2.
PromoteStored(m) ==
    IF Val(m.innings1).status = "scored" /\ Val(m.innings2).status = "pending"
    THEN [m EXCEPT !.innings2 = Some([Val(@) EXCEPT !.status = "open"])]
    ELSE m

\* The two normalizeInningsStatus calls.
AutoLockStored(m, t1, t2) ==
    [m EXCEPT !.innings1 = Some(normalizeInningsStatus(Val(@), t1)),
              !.innings2 = Some(normalizeInningsStatus(Val(@), t2))]

CoerceStored(m) ==
    SynthesizePredictions(SynthesizeInnings2(SynthesizeInnings1(m)))

normalizeStoredLockFirst(m, t1, t2) ==
    PromoteStored(AutoLockStored(CoerceStored(m), t1, t2))
normalizeStored(m, t1, t2) ==
    AutoLockStored(PromoteStored(CoerceStored(m)), t1, t2)

\* ------------------------------------------------------------------ results
PlayerIdsOf(players) == { players[i].id : i \in 1..Len(players) }

Predictors(predictions, players) ==
    SelectSeq([i \in 1..Len(players) |-> players[i].id],
              LAMBDA id : id \in DOMAIN predictions)

MinOf(S) == CHOOSE x \in S : \A y \in S : x <= y

computeInningsResultFirstOnly(actualScore, predictions, players) ==
    IF actualScore = None THEN None
    ELSE LET ids == Predictors(predictions, players)
             diff(id) == Abs(predictions[id] - Val(actualScore))
         IN  IF Len(ids) = 0
             THEN Some([winners |-> <<>>, closestDiff |-> None])
             ELSE LET minDiff == MinOf({ diff(ids[i]) : i \in 1..Len(ids) })
                  IN  Some([winners |-> <<Head(SelectSeq(ids, LAMBDA id : diff(id) = minDiff))>>,
                            closestDiff |-> Some(minDiff)])
computeInningsResult(actualScore, predictions, players) ==
    IF actualScore = None THEN None
    ELSE LET ids == Predictors(predictions, players)
             diff(id) == Abs(predictions[id] - Val(actualScore))
         IN  IF Len(ids) = 0
             THEN Some([winners |-> <<>>, closestDiff |-> None])
             ELSE LET minDiff == MinOf({ diff(ids[i]) : i \in 1..Len(ids) })
                  IN  Some([winners |-> SelectSeq(ids, LAMBDA id : diff(id) = minDiff),
                            closestDiff |-> Some(minDiff)])

\* --------------------------------------------------------------- scoreboard
\* The alphabetical order of the player names of the model.
NameRank(name) ==
    CASE name = "a" -> 1
      [] name = "b" -> 2
      [] name = "c" -> 3
      [] name = "d" -> 4

\* The innings buildScoreboard counts.
InningsCountedWithScore(innings) == IsSome(innings.score)
InningsCounted(innings) == innings.status = "scored" /\ IsSome(innings.score)

\* match.result?.[inningsKey] || computeInningsResult(...)
ResultOf(match, inningsKey, players) ==
    IF IsSome(match.result) /\ IsSome(Val(match.result)[inningsKey])
    THEN Val(match.result)[inningsKey]
    ELSE computeInningsResult(match[inningsKey].score,
                              match.predictions[inningsKey], players)

\* What the body of the two loops uses of one innings.
BoardEntry(match, inningsKey, players) ==
    LET counted == InningsCounted(match[inningsKey])
        result == IF counted THEN ResultOf(match, inningsKey, players) ELSE None
    IN  [ counted |-> counted,
          score |-> match[inningsKey].score,
          predictions |-> match.predictions[inningsKey],
          winners |-> IF IsSome(result)
                      THEN { Val(result).winners[k] : k \in 1..Len(Val(result).winners) }
                      ELSE {} ]

\* The innings of the matches in the order of the two loops.
RECURSIVE BoardInnings(_, _)
BoardInnings(matches, players) ==
    IF matches = <<>> THEN <<>>
    ELSE << BoardEntry(Head(matches), "innings1", players),
            BoardEntry(Head(matches), "innings2", players) >>
         \o BoardInnings(Tail(matches), players)

\* What a counted innings adds to the points of a winner at distance diff.
WinPointsAlwaysBonus(diff, settings) == 1 + settings.bonusExact
WinPoints(diff, settings) ==
    1 + (IF diff = 0 /\ settings.bonusExact > 0 THEN settings.bonusExact ELSE 0)

\* What a counted innings e adds to the field `what` of the row of player id,
\* whose prediction lies at distance diff.
BoardAdds(what, e, id, diff, settings) ==
    CASE what = "wins" -> IF id \in e.winners THEN 1 ELSE 0
      [] what = "points" -> IF id \in e.winners THEN WinPoints(diff, settings) ELSE 0
      [] what = "totalDiff" -> diff
      [] what = "predictions" -> 1
      [] what = "exactHits" -> IF diff = 0 THEN 1 ELSE 0

\* The field `what` summed over the counted innings in which the player has a
\* prediction.
BoardSum(entries, id, settings, what) ==
    LET f[k \in 0..Len(entries)] ==
            IF k = 0 THEN 0
            ELSE f[k - 1] +
                 (IF entries[k].counted /\ id \in DOMAIN entries[k].predictions
                  THEN BoardAdds(what, entries[k], id,
                                 Abs(entries[k].predictions[id] - Val(entries[k].score)),
                                 settings)
                  ELSE 0)
    IN  f[Len(entries)]

\* Number((totalDiff / predictions).toFixed(2)), in hundredths; toFixed rounds
\* to the nearest hundredth (no quotient of the model lies halfway).
AvgDiff(totalDiff, predictions) ==
    IF predictions = 0 THEN None
    ELSE Some((200 * totalDiff + predictions) \div (2 * predictions))

BoardRow(data, entries, player) ==
    LET id == player.id
        wins == BoardSum(entries, id, data.settings, "wins")
        points == BoardSum(entries, id, data.settings, "points")
        totalDiff == BoardSum(entries, id, data.settings, "totalDiff")
        predictions == BoardSum(entries, id, data.settings, "predictions")
        exactHits == BoardSum(entries, id, data.settings, "exactHits")
    IN  [ playerId |-> id, name |-> player.name, wins |-> wins, exactHits |-> exactHits,
          points |-> points, totalDiff |-> totalDiff, predictions |-> predictions,
          scoredMatches |-> predictions, avgDiff |-> AvgDiff(totalDiff, predictions) ]

\* null in a subtraction counts as 0
ToNumber(o) == IF IsSome(o) THEN Val(o) ELSE 0

\* a.name.localeCompare(b.name) compares by collation: strings that are
\* canonically equivalent (a letter with its accent in one code point or in
\* two) compare as equal.  "c2" is such a second spelling of the name "c".
CollationKey(name) == IF name = "c2" THEN "c" ELSE name

LocaleCompare(a, b) == NameRank(CollationKey(a)) - NameRank(CollationKey(b))

\* The comparator of rows.sort: negative when a comes first.
CompareRowsNoAvgDiff(a, b) ==
    IF b.points - a.points # 0 THEN b.points - a.points
    ELSE LocaleCompare(a.name, b.name)
CompareRows(a, b) ==
    IF b.points - a.points # 0 THEN b.points - a.points
    ELSE IF ToNumber(a.avgDiff) - ToNumber(b.avgDiff) # 0
    THEN ToNumber(a.avgDiff) - ToNumber(b.avgDiff)
    ELSE LocaleCompare(a.name, b.name)

\* Array.prototype.sort is stable: rows that compare equal keep their order.
\* The rows are taken with their index in the array.
SortRows(rows) ==
    LET indexed == { <<i, rows[i]>> : i \in 1..Len(rows) }
        place(p) == 1 + Cardinality({ q \in indexed :
                                        \/ CompareRows(q[2], p[2]) < 0
                                        \/ CompareRows(q[2], p[2]) = 0 /\ q[1] < p[1] })
    IN  [ k \in 1..Len(rows) |-> (CHOOSE p \in indexed : place(p) = k)[2] ]

buildScoreboard(data) ==
    LET entries == BoardInnings(data.matches, data.players)
    IN  SortRows([ i \in 1..Len(data.players) |-> BoardRow(data, entries, data.players[i]) ])

\* -------------------------------------------------------------- persistence
\* One match through saveData's INSERT and rowToMatch (Postgres backend).
DbMatchRoundTrip(m) ==
    LET lock_time == Or(m.innings1.lockTime, m.lockTime)
        actual_score == Or(m.innings1.score, m.actualScore)
    IN  [m EXCEPT !.lockTime = lock_time,
                  !.actualScore = actual_score,
                  !.innings1.lockTime = Or(m.innings1.lockTime, lock_time),
                  !.innings1.score = Or(m.innings1.score, actual_score)]

\* SELECT id, name FROM players ORDER BY name ASC
SortByName(players) ==
    IF \A i \in 1..(Len(players) - 1) :
           NameRank(players[i].name) < NameRank(players[i + 1].name)
    THEN players
    ELSE [ i \in 1..Len(players) |->
             CHOOSE p \in { players[k] : k \in 1..Len(players) } :
                Cardinality({ k \in 1..Len(players) :
                                NameRank(players[k].name) < NameRank(p.name) }) = i - 1 ]

\* SELECT * FROM matches ORDER BY match_date NULLS LAST: every order of the
\* rows that the clause allows (rows with equal dates come in any order).
DateBefore(a, b) ==
    \/ IsSome(a) /\ b = None
    \/ IsSome(a) /\ IsSome(b) /\ Val(a) < Val(b)

Perms(n) == { f \in [1..n -> 1..n] : \A i, j \in 1..n : i # j => f[i] # f[j] }

RowOrders(matches) ==
    { [ i \in 1..Len(matches) |-> matches[f[i]] ] : f \in
        { g \in Perms(Len(matches)) :
            \A i, j \in 1..Len(matches) :
                i < j => ~DateBefore(matches[g[j]].matchDate, matches[g[i]].matchDate) } }

\* external_id TEXT UNIQUE: the INSERT of a second row with the same
\* externalId fails, saveData rolls back and throws.  min_score and max_score
\* are INTEGER columns: the INSERT of a bound that is no whole number (an odd
\* number of halves) fails likewise.
DbSaveFails(data) ==
    \/ \E i, j \in 1..Len(data.matches) :
          /\ i < j
          /\ IsSome(data.matches[i].externalId)
          /\ data.matches[i].externalId = data.matches[j].externalId
    \/ data.settings.minScore % 2 = 1
    \/ data.settings.maxScore % 2 = 1

\* What readData returns after saveData(data): the set of possible rooms.
Persisted(db, data) ==
    IF ~db THEN { data }
    ELSE { [ data EXCEPT !.players = SortByName(data.players), !.matches = ms ] :
             ms \in RowOrders([ i \in 1..Len(data.matches) |->
                                  DbMatchRoundTrip(data.matches[i]) ]) }

\* ----------------------------------------------------------------- handlers
\* A handler is an operator from the room readData returned, the request and
\* the clock readings to: the room it holds at the end, whether it called
\* saveData, and the response (HTTP status and error message).
Res(data, save, code, error) ==
    [ data |-> data, save |-> save, code |-> code, error |-> error ]

\* data.matches.find((m) => m.id === id): the index of the match, 0 if none.
FindMatch(data, id) ==
    IF \E i \in 1..Len(data.matches) : data.matches[i].id = id
    THEN CHOOSE i \in 1..Len(data.matches) :
            /\ data.matches[i].id = id
            /\ \A j \in 1..(i - 1) : data.matches[j].id # id
    ELSE 0

WithMatch(data, i, m) == [data EXCEPT !.matches[i] = m]

InningsKey(innings) == IF innings = 2 THEN "innings2" ELSE "innings1"

ScoreIsNumber(score, settings) == IsSome(score)
ScoreInBounds(score, settings) ==
    /\ IsSome(score)
    /\ ~(Val(score) < settings.minScore)
    /\ ~(Val(score) > settings.maxScore)

\* app.post("/api/matches/:id/predict")
\* req = [id, innings, playerId, score]; t1, t2: normalizeMatch; t3: the
\* isInningsLocked re-check.
PredictStoreUnrounded(predictions, playerId, score) ==
    (playerId :> Val(score)) @@ predictions
PredictStore(predictions, playerId, score) ==
    (playerId :> Round(Val(score))) @@ predictions

\* The checks of the predict handler, in the order the handler makes them: the
\* error message of the first that fails, "" when all pass.
PredictErrorPlayerFirst(data, match, inningsData, req, t3) ==
    IF req.playerId \notin PlayerIdsOf(data.players)
    THEN "Invalid player."
    ELSE IF ~ScoreInBounds(req.score, data.settings)
    THEN "Score must be between min and max."
    ELSE IF getBattingTeams(match) = None
    THEN "Set the toss before predictions."
    ELSE IF inningsData.status # "open"
    THEN "Predictions are not open for this innings."
    ELSE IF isInningsLocked(inningsData, t3)
    THEN "Predictions are locked."
    ELSE ""
PredictErrorNoStatus(data, match, inningsData, req, t3) ==
    IF getBattingTeams(match) = None
    THEN "Set the toss before predictions."
    ELSE IF isInningsLocked(inningsData, t3)
    THEN "Predictions are locked."
    ELSE IF req.playerId \notin PlayerIdsOf(data.players)
    THEN "Invalid player."
    ELSE IF ~ScoreInBounds(req.score, data.settings)
    THEN "Score must be between min and max."
    ELSE ""
PredictErrorNoToss(data, match, inningsData, req, t3) ==
    IF inningsData.status # "open"
    THEN "Predictions are not open for this innings."
    ELSE IF isInningsLocked(inningsData, t3)
    THEN "Predictions are locked."
    ELSE IF req.playerId \notin PlayerIdsOf(data.players)
    THEN "Invalid player."
    ELSE IF ~ScoreInBounds(req.score, data.settings)
    THEN "Score must be between min and max."
    ELSE ""
PredictError(data, match, inningsData, req, t3) ==
    IF getBattingTeams(match) = None
    THEN "Set the toss before predictions."
    ELSE IF inningsData.status # "open"
    THEN "Predictions are not open for this innings."
    ELSE IF isInningsLocked(inningsData, t3)
    THEN "Predictions are locked."
    ELSE IF req.playerId \notin PlayerIdsOf(data.players)
    THEN "Invalid player."
    ELSE IF ~ScoreInBounds(req.score, data.settings)
    THEN "Score must be between min and max."
    ELSE ""

predict(data, req, t1, t2, t3) ==
    LET i == FindMatch(data, req.id) IN
    IF i = 0 THEN Res(data, FALSE, 404, "Match not found.") ELSE
    LET match == normalizeMatch(data.matches[i], data.settings, t1, t2)
        data1 == WithMatch(data, i, match)
        inningsKey == InningsKey(req.innings)
        error == PredictError(data, match, match[inningsKey], req, t3)
    IN
    IF error = "" THEN
        Res([data1 EXCEPT !.matches[i].predictions[inningsKey] =
                    PredictStore(@, req.playerId, req.score)],
            TRUE, 200, "")
    ELSE IF error = "Predictions are locked." THEN Res(data1, TRUE, 403, error)
    ELSE IF error = "Predictions are not open for this innings."
    THEN Res(data1, FALSE, 403, error)
    ELSE Res(data1, FALSE, 400, error)

\* app.post("/api/matches/:id/lock"); req = [id, adminPin, innings]
lock(data, req, t1, t2) ==
    LET i == FindMatch(data, req.id) IN
    IF i = 0 THEN Res(data, FALSE, 404, "Match not found.") ELSE
    IF ~ensureAdmin(data, req.adminPin)
    THEN Res(data, FALSE, 403, "Invalid admin PIN.") ELSE
    LET match == normalizeMatch(data.matches[i], data.settings, t1, t2)
    IN  Res(WithMatch(data, i, [match EXCEPT ![InningsKey(req.innings)].status = "locked"]),
            TRUE, 200, "")

\* app.post("/api/matches/:id/toss"); req = [id, adminPin, winner, decision]
tossWinnerAny(match, winner) == TRUE
tossWinnerOk(match, winner) == winner \in {match.teamA, match.teamB}

toss(data, req) ==
    LET i == FindMatch(data, req.id) IN
    IF i = 0 THEN Res(data, FALSE, 404, "Match not found.") ELSE
    IF ~ensureAdmin(data, req.adminPin)
    THEN Res(data, FALSE, 403, "Invalid admin PIN.") ELSE
    IF ~tossWinnerOk(data.matches[i], req.winner)
    THEN Res(data, FALSE, 400, "Toss winner must be Team A or Team B.") ELSE
    IF req.decision \notin {"bat", "field"}
    THEN Res(data, FALSE, 400, "Decision must be bat or field.") ELSE
    Res(WithMatch(data, i, [data.matches[i] EXCEPT
            !.toss = Some([winner |-> req.winner, decision |-> req.decision])]),
        TRUE, 200, "")

\* app.post("/api/matches/:id/score")
\* req = [id, adminPin, innings, actualScore, innings2StartTime]
ScoreResultNotStored(match, inningsKey, players) == match.result
ScoreResultKeepsOld(match, inningsKey, players) ==
    LET old == IF match.result = None
               THEN [innings1 |-> None, innings2 |-> None]
               ELSE Val(match.result)
    IN  Some([old EXCEPT ![inningsKey] =
                IF IsSome(@) THEN @
                ELSE computeInningsResult(match[inningsKey].score,
                                          match.predictions[inningsKey], players)])
ScoreResult(match, inningsKey, players) ==
    LET old == IF match.result = None
               THEN [innings1 |-> None, innings2 |-> None]
               ELSE Val(match.result)
    IN  Some([old EXCEPT ![inningsKey] =
                computeInningsResult(match[inningsKey].score,
                                     match.predictions[inningsKey], players)])

score(data, req, t1, t2) ==
    LET i == FindMatch(data, req.id) IN
    IF i = 0 THEN Res(data, FALSE, 404, "Match not found.") ELSE
    IF ~ensureAdmin(data, req.adminPin)
    THEN Res(data, FALSE, 403, "Invalid admin PIN.") ELSE
    LET match == normalizeMatch(data.matches[i], data.settings, t1, t2)
        data1 == WithMatch(data, i, match)
        inningsKey == InningsKey(req.innings)
    IN
    IF ~ScoreInBounds(req.actualScore, data.settings)
    THEN Res(data1, FALSE, 400, "Actual score must be between min and max.") ELSE
    IF inningsKey = "innings2" /\ match.innings2.status = "pending"
    THEN Res(data1, FALSE, 400, "Innings 2 is not open yet.") ELSE
    LET m1 == [match EXCEPT ![inningsKey].score = Some(Round(Val(req.actualScore))),
                            ![inningsKey].status = "scored"]
        m2 == [m1 EXCEPT !.result = ScoreResult(m1, inningsKey, data.players)]
        m3 == IF inningsKey = "innings1" /\ m2.innings2.status = "pending"
              THEN [m2 EXCEPT
                      !.innings2.status = "open",
                      !.innings2.lockTime =
                          IF IsSome(req.innings2StartTime)
                          THEN computeLockTime(req.innings2StartTime,
                                               data.settings.lockMinutesBeforeStart)
                          ELSE @]
              ELSE m2
    IN  Res(WithMatch(data, i, m3), TRUE, 200, "")

\* app.post("/api/matches/:id/reopen"); req = [id, adminPin, innings]
\* (innings 0: no innings given, the whole match is reopened)
reopen(data, req, t1, t2) ==
    LET i == FindMatch(data, req.id) IN
    IF i = 0 THEN Res(data, FALSE, 404, "Match not found.") ELSE
    IF ~ensureAdmin(data, req.adminPin)
    THEN Res(data, FALSE, 403, "Invalid admin PIN.") ELSE
    LET match == normalizeMatch(data.matches[i], data.settings, t1, t2)
        inningsKey == InningsKey(req.innings)
        one == [match EXCEPT
                  ![inningsKey].status = "open",
                  ![inningsKey].score = None,
                  !.result = IF @ = None THEN None
                             ELSE Some([Val(@) EXCEPT ![inningsKey] = None])]
        whole == [match EXCEPT
                  !.innings1.status = "open",
                  !.innings1.score = None,
                  !.innings2.status = "pending",
                  !.innings2.score = None,
                  !.innings2.lockTime = None,
                  !.result = None]
    IN  Res(WithMatch(data, i, IF req.innings \in {1, 2} THEN one ELSE whole),
            TRUE, 200, "")

\* ------------------------------------------------- match creation and import
NewMatch(id, externalId, teamA, teamB, matchDate, lockTime, topLockTime) ==
    [ id |-> id,
      externalId |-> externalId,
      teamA |-> teamA,
      teamB |-> teamB,
      matchDate |-> matchDate,
      lockTime |-> topLockTime,
      actualScore |-> None,
      goalserveMatchId |-> None,
      toss |-> None,
      innings1 |-> [status |-> "open", lockTime |-> lockTime, score |-> None],
      innings2 |-> [status |-> "pending", lockTime |-> None, score |-> None],
      predictions |-> [innings1 |-> <<>>, innings2 |-> <<>>],
      result |-> None ]

\* makeId("match"): an id no match of the room has.
FreshMatchId(matches) == Len(matches) + 1

\* app.post("/api/matches"); req = [adminPin, teamA, teamB, matchDate, lockTime]
createMatch(data, req) ==
    IF ~ensureAdmin(data, req.adminPin)
    THEN Res(data, FALSE, 403, "Invalid admin PIN.") ELSE
    IF req.teamA = "" \/ req.teamB = ""
    THEN Res(data, FALSE, 400, "Provide both team names.") ELSE
    LET lockTime == IF IsSome(req.lockTime) THEN req.lockTime
                    ELSE computeLockTime(req.matchDate,
                                         data.settings.lockMinutesBeforeStart)
    IN  Res([data EXCEPT !.matches = Append(@,
                NewMatch(FreshMatchId(@), None, req.teamA, req.teamB,
                         req.matchDate, lockTime, None))],
            TRUE, 200, "")

\* normalizeFixtureRow; a feed row is [MatchNumber, HomeTeam, AwayTeam, DateUtc]
normalizeFixtureRow(row, settings) ==
    [ externalId |-> Some(row.MatchNumber),
      teamA |-> IF row.HomeTeam = "" THEN "TBD" ELSE row.HomeTeam,
      teamB |-> IF row.AwayTeam = "" THEN "TBD" ELSE row.AwayTeam,
      matchDate |-> row.DateUtc,
      lockTime |-> computeLockTime(row.DateUtc, settings.lockMinutesBeforeStart) ]

\* existingByExternal.get(externalId) over the matches the room had when the
\* import began: the last of them with that externalId, 0 if none.
ExistingByExternal(orig, externalId) ==
    LET hits == { i \in 1..Len(orig) : orig[i].externalId = externalId }
    IN  IF hits = {} THEN 0 ELSE CHOOSE i \in hits : \A j \in hits : j <= i

ImportUpdateResetsToss(existing, normalized) ==
    [existing EXCEPT !.teamA = normalized.teamA,
                     !.teamB = normalized.teamB,
                     !.matchDate = normalized.matchDate,
                     !.innings1.lockTime = normalized.lockTime,
                     !.toss = None]
ImportUpdate(existing, normalized) ==
    [existing EXCEPT !.teamA = normalized.teamA,
                     !.teamB = normalized.teamB,
                     !.matchDate = normalized.matchDate,
                     !.innings1.lockTime = normalized.lockTime]

RECURSIVE ImportRows(_, _, _, _)
ImportRows(matches, orig, rows, settings) ==
    IF rows = <<>> THEN matches
    ELSE LET normalized == normalizeFixtureRow(Head(rows), settings)
             e == ExistingByExternal(orig, normalized.externalId)
         IN  ImportRows(
                 IF e # 0
                 THEN [matches EXCEPT ![e] = ImportUpdate(@, normalized)]
                 ELSE Append(matches,
                             NewMatch(FreshMatchId(matches), normalized.externalId,
                                      normalized.teamA, normalized.teamB,
                                      normalized.matchDate, normalized.lockTime,
                                      normalized.lockTime)),
                 orig, Tail(rows), settings)

\* importSchedule(data); feed = [ok, rows]: ok is FALSE when the fetch fails or
\* the answer is no JSON array.  Returns [threw, data].
importSchedule(data, feed) ==
    IF ~feed.ok THEN [threw |-> TRUE, data |-> data]
    ELSE [threw |-> FALSE,
          data |-> [data EXCEPT !.matches =
                        ImportRows(@, data.matches, feed.rows, data.settings)]]

\* data.matches.forEach((match) => normalizeMatch(match, data.settings));
\* clk[2i-1] and clk[2i] are the clock readings for match i.
NormalizeAll(data, clk) ==
    [data EXCEPT !.matches =
        [ i \in 1..Len(@) |-> normalizeMatch(@[i], data.settings, clk[2 * i - 1], clk[2 * i]) ]]

\* app.post("/api/schedule/import"); req = [adminPin]
scheduleImport(data, req, feed, clk) ==
    IF ~ensureAdmin(data, req.adminPin)
    THEN Res(data, FALSE, 403, "Invalid admin PIN.") ELSE
    LET r == importSchedule(NormalizeAll(data, clk), feed)
    IN  IF r.threw THEN Res(r.data, FALSE, 500, "Schedule sync failed.")
        ELSE Res(r.data, TRUE, 200, "")

\* ----------------------------------------------------------------- toss sync
\* The configured sync interval and window, in clock units.
TOSS_SYNC_INTERVAL_MS == 1
TOSS_SYNC_WINDOW_MINUTES == 1

\* String.toLowerCase / normalizeTeamName on the team names of the model.
ToLower(name) ==
    CASE name \in {"A", "a"} -> "a"
      [] name \in {"B", "b"} -> "b"
      [] name \in {"C", "c"} -> "c"
      [] name \in {"TBD", "tbd"} -> "tbd"
      [] OTHER -> name

normalizeTeamName(name) == ToLower(name)

\* The calendar day of an instant (matchDate.slice(0, 10)).
DayOf(t) == t \div 2

\* parseTossText.  A toss text is [string, mentions, words]: whether the feed
\* gave a string, the lower-case team names it contains and which of the
\* decision phrases ("... to field", "... to bowl", "... to bat") it contains.
\* On a text that is no string (a number in the feed's JSON) text.toLowerCase
\* is no function and parseTossText throws.
parseTossTextThrows(text) == IsSome(text) /\ ~Val(text).string

parseTossText(text, teamA, teamB) ==
    IF text = None THEN None
    ELSE LET mentions == Val(text).mentions
             words == Val(text).words
             decision == IF words \cap {"field", "bowl"} # {} THEN "field"
                         ELSE IF "bat" \in words THEN "bat"
                         ELSE ""
         IN  IF ToLower(teamA) \notin mentions /\ ToLower(teamB) \notin mentions
             THEN None
             ELSE IF decision = "" THEN None
             ELSE Some([winner |-> IF ToLower(teamA) \in mentions THEN teamA ELSE teamB,
                        decision |-> decision])

\* The predicate of feedMatches.find in syncTossFromGoalserve.
FeedItemMatches(match, item) ==
    \/ /\ IsSome(match.goalserveMatchId)
       /\ IsSome(item.id)
       /\ item.id = match.goalserveMatchId
    \/ /\ normalizeTeamName(item.localTeam) # ""
       /\ normalizeTeamName(item.visitorTeam) # ""
       /\ \/ /\ normalizeTeamName(item.localTeam) = normalizeTeamName(match.teamA)
             /\ normalizeTeamName(item.visitorTeam) = normalizeTeamName(match.teamB)
          \/ /\ normalizeTeamName(item.localTeam) = normalizeTeamName(match.teamB)
             /\ normalizeTeamName(item.visitorTeam) = normalizeTeamName(match.teamA)
       /\ \/ match.matchDate = None
          \/ item.date = None
          \/ Val(item.date) = DayOf(Val(match.matchDate))

\* The feed item of a match: the index of the first that matches, 0 if none.
MatchedItem(match, items) ==
    LET hits == { k \in 1..Len(items) : FeedItemMatches(match, items[k]) }
    IN  IF hits = {} THEN 0 ELSE CHOOSE k \in hits : \A j \in hits : k <= j

\* One round of the loop over the candidates throws.
SyncOneThrows(match, items) ==
    /\ MatchedItem(match, items) # 0
    /\ parseTossTextThrows(items[MatchedItem(match, items)].tossText)

SyncOneToss(match, items) ==
    IF MatchedItem(match, items) = 0 THEN match
    ELSE LET matched == items[MatchedItem(match, items)]
             parsed == parseTossText(matched.tossText, match.teamA, match.teamB)
         IN  IF parsed = None THEN match
             ELSE [match EXCEPT !.toss = parsed,
                                !.goalserveMatchId = matched.id]

TossCandidateAnyToss(match, t) ==
    \/ match.matchDate = None
    \/ Abs(Val(match.matchDate) - t) <= TOSS_SYNC_WINDOW_MINUTES
TossCandidate(match, t) ==
    /\ match.toss = None
    /\ \/ match.matchDate = None
       \/ Abs(Val(match.matchDate) - t) <= TOSS_SYNC_WINDOW_MINUTES

\* syncTossFromGoalserve(data, force).  configured: GOALSERVE_TOSS_FEED_URL is
\* set; feed = [ok, items], ok FALSE when the fetch fails or the answer cannot
\* be parsed; t: the clock at the start, tEnd: at the end.  The loop over the
\* candidates changes the matches in place, so a round that throws leaves the
\* rounds before it done.  Returns [threw, fetched, data].
syncTossFromGoalserve(data, force, configured, feed, t, tEnd) ==
    IF ~configured THEN [threw |-> FALSE, fetched |-> FALSE, data |-> data]
    ELSE IF ~data.settings.tossAutoEnabled /\ ~force
    THEN [threw |-> FALSE, fetched |-> FALSE, data |-> data]
    ELSE IF /\ ~force
            /\ IsSome(data.settings.lastTossSync)
            /\ t - Val(data.settings.lastTossSync) < TOSS_SYNC_INTERVAL_MS
    THEN [threw |-> FALSE, fetched |-> FALSE, data |-> data]
    ELSE IF \A i \in 1..Len(data.matches) : ~TossCandidate(data.matches[i], t)
    THEN [threw |-> FALSE, fetched |-> FALSE,
          data |-> [data EXCEPT !.settings.lastTossSync = Some(t)]]
    ELSE IF ~feed.ok
    THEN [threw |-> TRUE, fetched |-> TRUE, data |-> data]
    ELSE IF \E i \in 1..Len(data.matches) :
               TossCandidate(data.matches[i], t) /\ SyncOneThrows(data.matches[i], feed.items)
    THEN LET first == CHOOSE i \in 1..Len(data.matches) :
                        /\ TossCandidate(data.matches[i], t)
                        /\ SyncOneThrows(data.matches[i], feed.items)
                        /\ \A j \in 1..(i - 1) :
                              ~(/\ TossCandidate(data.matches[j], t)
                                /\ SyncOneThrows(data.matches[j], feed.items))
         IN  [threw |-> TRUE, fetched |-> TRUE,
              data |-> [data EXCEPT
                          !.matches = [ i \in 1..Len(@) |->
                                          IF i < first /\ TossCandidate(@[i], t)
                                          THEN SyncOneToss(@[i], feed.items)
                                          ELSE @[i] ]]]
    ELSE [threw |-> FALSE, fetched |-> TRUE,
          data |-> [data EXCEPT
                      !.settings.lastTossSync = Some(tEnd),
                      !.matches = [ i \in 1..Len(@) |->
                                      IF TossCandidate(@[i], t)
                                      THEN SyncOneToss(@[i], feed.items)
                                      ELSE @[i] ]]]

\* app.post("/api/toss/sync"); req = [adminPin]
tossSync(data, req, configured, feed, t, tEnd) ==
    IF ~ensureAdmin(data, req.adminPin)
    THEN Res(data, FALSE, 403, "Invalid admin PIN.") ELSE
    LET r == syncTossFromGoalserve(data, TRUE, configured, feed, t, tEnd)
    IN  IF r.threw THEN Res(r.data, FALSE, 500, "Toss sync failed.")
        ELSE Res(r.data, TRUE, 200, "")

\* app.get("/api/state"); clk: 2 readings per match, then the sync's two.
getState(data, configured, feed, clk) ==
    LET n == Len(data.matches)
        data1 == NormalizeAll(data, clk)
        r == syncTossFromGoalserve(data1, FALSE, configured, feed,
                                   clk[2 * n + 1], clk[2 * n + 2])
    IN  Res(r.data, TRUE, 200, "")

\* --------------------------------------------------------------------- setup
SetupNames == <<"b", "a", "c", "d">>

\* app.post("/api/setup")
\* req = [nPlayers, usePin, adminPin, bonusExact, minScore, maxScore,
\*        lockMinutesBeforeStart, importSchedule]
\* nPlayers: how many non-empty names the request carries.
setup(req, feed) ==
    IF req.nPlayers < MinPlayers
    THEN Res(defaultData, FALSE, 400, "Add four players.") ELSE
    IF req.usePin /\ Len(req.adminPin) < MinPinLength
    THEN Res(defaultData, FALSE, 400, "Admin PIN must be at least 3 digits.") ELSE
    LET minScore == Max(0, req.minScore)
        data == [ defaultData EXCEPT
                    !.settings.usePin = req.usePin,
                    !.settings.adminPinHash =
                        IF req.usePin THEN Some(hashPin(req.adminPin)) ELSE None,
                    !.settings.bonusExact = Max(0, req.bonusExact),
                    !.settings.minScore = minScore,
                    !.settings.maxScore = Max(minScore, req.maxScore),
                    !.settings.lockMinutesBeforeStart = Max(0, req.lockMinutesBeforeStart),
                    !.players = [ i \in 1..req.nPlayers |->
                                    [id |-> i, name |-> SetupNames[i]] ] ]
    IN  Res(IF req.importSchedule THEN importSchedule(data, feed).data ELSE data,
            TRUE, 200, "")

\* ------------------------------------------------------------------ requests
SeqsUpTo(S, n) == UNION { [1..k -> S] : k \in 0..n }

FailedFeed == [ok |-> FALSE, rows |-> <<>>]
Feed(rows) == [ok |-> TRUE, rows |-> rows]
FailedTossFeed == [ok |-> FALSE, items |-> <<>>]
TossFeed(items) == [ok |-> TRUE, items |-> items]

\* The readings of Date.now() during one request: the clock may advance once
\* while the request is served.
Clocks(n) ==
    { [ j \in 1..n |-> IF j <= k THEN now ELSE now + 1 ] :
        k \in IF now < MaxTime THEN 0..n ELSE {n} }

\* ------------------------------------------------------------------- actions
\* One request served alone: the handler ran on readData's room and its
\* saveData, if any, is done.  A saveData that throws leaves the store as it
\* was and the request without a success response.
SaveThrows(r) == r.save /\ useDb /\ DbSaveFails(r.data)

\* The rooms the store can hold after the request, when it held `room`.
OutcomeOn(room, r) ==
    IF r.save /\ ~SaveThrows(r) THEN Persisted(useDb, r.data) ELSE { room }

Outcome(r) == OutcomeOn(disk, r)

\* A connection with no request.  pc: where the request's handler stands
\* ("players", "matches": readData's second and third query are to come;
\* "fetch": awaiting the toss feed; "save": awaiting saveData; "done": answered).
\* part: what readData has read so far; loaded: the room readData returned.
\* For the record: start, the room the store held when the request arrived;
\* seen, the rooms the store held while readData ran; others, the requests
\* saved by other connections since this one arrived; r, the handler's result.
Procs == 1..MaxProcs

Idle ==
    [ pc |-> "idle", op |-> "none", req |-> None, part |-> defaultData,
      loaded |-> None, seen |-> {}, start |-> None, others |-> <<>>, r |-> None ]

Serve(op, r, tEnd) ==
    /\ disk' \in Outcome(r)
    /\ resp' = [ op |-> op,
                 code |-> IF SaveThrows(r) THEN 500 ELSE r.code,
                 error |-> IF SaveThrows(r) THEN "saveData failed" ELSE r.error ]
    /\ now' = tEnd
    /\ UNCHANGED <<useDb, inflight>>

Setup(reqs, feeds) ==
    \E req \in reqs, feed \in feeds :
        /\ Len(setup(req, feed).data.matches) <= MaxMatches
        /\ Serve("setup", setup(req, feed), now)

CreateMatchUpTo(reqs, n) ==
    \E req \in reqs :
        /\ Len(disk.matches) < n
        /\ Serve("create", createMatch(disk, req), now)

CreateMatch(reqs) == CreateMatchUpTo(reqs, MaxMatches)

ScheduleImportUpTo(reqs, feeds, n) ==
    \E req \in reqs, feed \in feeds, clk \in Clocks(2 * Len(disk.matches) + 1) :
        /\ Len(scheduleImport(disk, req, feed, clk).data.matches) <= n
        /\ Serve("import", scheduleImport(disk, req, feed, clk), clk[Len(clk)])

ScheduleImport(reqs, feeds) == ScheduleImportUpTo(reqs, feeds, MaxMatches)

TossSync(reqs, configs, feeds) ==
    \E req \in reqs, configured \in configs, feed \in feeds, clk \in Clocks(2) :
        Serve("tossSync", tossSync(disk, req, configured, feed, clk[1], clk[2]), clk[2])

GetState(configs, feeds) ==
    \E configured \in configs, feed \in feeds, clk \in Clocks(2 * Len(disk.matches) + 2) :
        Serve("state", getState(disk, configured, feed, clk), clk[Len(clk)])

Predict(reqs) ==
    \E req \in reqs, clk \in Clocks(3) :
        Serve("predict", predict(disk, req, clk[1], clk[2], clk[3]), clk[3])

Lock(reqs) ==
    \E req \in reqs, clk \in Clocks(2) :
        Serve("lock", lock(disk, req, clk[1], clk[2]), clk[2])

Toss(reqs) ==
    \E req \in reqs, t \in {now} :
        Serve("toss", toss(disk, req), t)

Score(reqs) ==
    \E req \in reqs, clk \in Clocks(2) :
        Serve("score", score(disk, req, clk[1], clk[2]), clk[2])

Reopen(reqs) ==
    \E req \in reqs, clk \in Clocks(2) :
        Serve("reopen", reopen(disk, req, clk[1], clk[2]), clk[2])

Tick ==
    /\ now < MaxTime
    /\ now' = now + 1
    /\ UNCHANGED <<useDb, disk, resp, inflight>>

Init ==
    /\ useDb \in BOOLEAN
    /\ disk = defaultData
    /\ now = 0
    /\ resp = [ op |-> "none", code |-> 0, error |-> "" ]
    /\ inflight = [ p \in Procs |-> Idle ]

\* ------------------------------------------------------- the prediction ledger
\* A room without PIN, one fixture: every operation with the requests that
\* build the innings states, lock times, tosses and predictions.
LedgerSetupReqs ==
    [ nPlayers : {MinPlayers}, usePin : {FALSE}, adminPin : {""},
      bonusExact : {0}, minScore : MinScoreInputs, maxScore : MaxScoreInputs,
      lockMinutesBeforeStart : LockOffsetInputs, importSchedule : {FALSE} ]

NextLedger ==
    \/ Setup(LedgerSetupReqs, {FailedFeed})
    \/ CreateMatch([ adminPin : {""}, teamA : {"A"}, teamB : {"B"},
                     matchDate : DateInputs, lockTime : {None} ])
    \/ ScheduleImport([ adminPin : {""} ], {Feed(<<>>)})
    \/ TossSync([ adminPin : {""} ], {FALSE}, {FailedTossFeed})
    \/ GetState({FALSE}, {FailedTossFeed})
    \/ Predict([ id : {1}, innings : InningsInputs, playerId : ReqPlayerIds,
                 score : {Some(2), Some(5)} ])
    \/ Lock([ id : {1}, adminPin : {""}, innings : InningsInputs ])
    \/ Toss([ id : {1}, adminPin : {""}, winner : {"A"}, decision : {"bat"} ])
    \/ Score([ id : {1}, adminPin : {""}, innings : InningsInputs,
               actualScore : {Some(3)}, innings2StartTime : {Some(2)} ])
    \/ Reopen([ id : {1}, adminPin : {""}, innings : {0, 1, 2} ])
    \/ Tick

SpecLedger == Init /\ [][NextLedger]_vars

\* ------------------------------------------------------- the room and its PIN
\* Rooms with and without PIN, one fixture whose teams the schedule feed may
\* rename, tosses set by the admin and by the toss feed; every operation is
\* issued with the right PIN and with a wrong or missing one.
RoomSetupReqs ==
    [ nPlayers : {MinPlayers}, usePin : BOOLEAN, adminPin : {"123"},
      bonusExact : {0}, minScore : MinScoreInputs, maxScore : MaxScoreInputs,
      lockMinutesBeforeStart : LockOffsetInputs, importSchedule : {FALSE} ]
RoomRows == [ MatchNumber : {1}, HomeTeam : {"A", "C"}, AwayTeam : {"B"}, DateUtc : {Some(2)} ]
RoomTossFeeds ==
    { FailedTossFeed,
      TossFeed(<<[ id |-> Some(7), localTeam |-> "b", visitorTeam |-> "a", date |-> None,
                   tossText |-> Some([string |-> TRUE, mentions |-> {"a", "b"}, words |-> {"bowl"}]) ]>>) }

NextRoom ==
    \/ Setup(RoomSetupReqs, {FailedFeed})
    \/ CreateMatch([ adminPin : {"", "123"}, teamA : {"A"}, teamB : {"B"},
                     matchDate : {Some(2)}, lockTime : {None} ])
    \/ ScheduleImport([ adminPin : {"123", "999"} ],
                      { FailedFeed } \cup { Feed(r) : r \in SeqsUpTo(RoomRows, 1) })
    \/ TossSync([ adminPin : {"123", "999"} ], {TRUE}, RoomTossFeeds)
    \/ GetState({FALSE}, {FailedTossFeed})
    \/ Predict([ id : {1}, innings : {1}, playerId : {1}, score : {Some(2)} ])
    \/ Lock([ id : {1}, adminPin : {"123", "999"}, innings : {1} ])
    \/ Toss([ id : {1}, adminPin : {"123", "999"}, winner : {"A", "B"},
              decision : {"bat", "bowl"} ])
    \/ Score([ id : {1}, adminPin : {"123", "999"}, innings : {1},
               actualScore : {Some(3)}, innings2StartTime : {None} ])
    \/ Reopen([ id : {1}, adminPin : {"123", "999"}, innings : {0} ])
    \/ Tick

SpecRoom == Init /\ [][NextRoom]_vars

\* ------------------------------------------------------------ any request
\* The requests the properties range over: in every reachable state, every
\* one of them is put to the handler.
AnyPlayerIds == 0..(MaxPredictors + 1)
AnyPredictReqs ==
    [ id : ReqMatchIds, innings : InningsInputs, playerId : AnyPlayerIds, score : RawScores ]

MatchIds(d) == { d.matches[i].id : i \in 1..Len(d.matches) }
MatchById(d, id) == d.matches[FindMatch(d, id)]

\* The predictions of every match of a room, by match id.
PredictionsOf(d) == { <<d.matches[i].id, d.matches[i].predictions>> : i \in 1..Len(d.matches) }

\* C1: a predict request for an innings whose stored status is locked, scored
\* or pending fails, with the innings-not-open error when the toss is set, and
\* every room the store can hold afterwards has the predictions it had.
C1_ClosedInningsRejectsPredict ==
    \A req \in AnyPredictReqs, clk \in Clocks(3) :
        ( /\ req.id \in MatchIds(disk)
          /\ MatchById(disk, req.id)[InningsKey(req.innings)].status
                \in {"locked", "scored", "pending"} )
        => LET r == predict(disk, req, clk[1], clk[2], clk[3])
           IN  /\ r.code # 200
               /\ MatchById(disk, req.id).toss # None
                    => /\ r.code = 403
                       /\ r.error = "Predictions are not open for this innings."
               /\ \A d \in Outcome(r) : PredictionsOf(d) = PredictionsOf(disk)

C1_Witness ==
    /\ resp = [op |-> "predict", code |-> 403,
               error |-> "Predictions are not open for this innings."]
    /\ \E i \in 1..Len(disk.matches) :
        /\ disk.matches[i].toss # None
        /\ disk.matches[i].innings1.status = "scored"
        /\ disk.matches[i].innings2.status = "locked"
        /\ DOMAIN disk.matches[i].predictions.innings1 # {}

\* C2: once the clock has reached an innings' lock time, a predict request for
\* that innings is rejected and the predictions stay as they were, whatever
\* the stored status of the innings is.
C2_PastLockTimeRejectsPredict ==
    \A req \in AnyPredictReqs, clk \in Clocks(3) :
        ( /\ req.id \in MatchIds(disk)
          /\ IsSome(MatchById(disk, req.id)[InningsKey(req.innings)].lockTime)
          /\ now >= Val(MatchById(disk, req.id)[InningsKey(req.innings)].lockTime) )
        => LET r == predict(disk, req, clk[1], clk[2], clk[3])
           IN  /\ r.code # 200
               /\ \A d \in Outcome(r) : PredictionsOf(d) = PredictionsOf(disk)

\* The lock time of innings1 has passed, no read has advanced its stored
\* status, the toss is set, and a predict request has just been refused.
C2_Witness ==
    /\ resp.op = "predict"
    /\ resp.code = 403
    /\ \E i \in 1..Len(disk.matches) :
        /\ disk.matches[i].toss # None
        /\ disk.matches[i].innings1.status = "open"
        /\ IsSome(disk.matches[i].innings1.lockTime)
        /\ now >= Val(disk.matches[i].innings1.lockTime)

\* C3: a predict request of a known player with a score within the bounds,
\* for an open innings before its lock time of a match with a toss, succeeds;
\* afterwards the store holds round(score) for that player and innings, and
\* every other prediction of the room is as before.
C3_ValidPredictIsStored ==
    \A req \in AnyPredictReqs, clk \in Clocks(3) :
        ( /\ req.id \in MatchIds(disk)
          /\ MatchById(disk, req.id).toss # None
          /\ MatchById(disk, req.id)[InningsKey(req.innings)].status = "open"
          /\ LET lockTime == MatchById(disk, req.id)[InningsKey(req.innings)].lockTime
             IN  lockTime = None \/ clk[3] < Val(lockTime)
          /\ req.playerId \in PlayerIdsOf(disk.players)
          /\ IsSome(req.score)
          /\ disk.settings.minScore <= Val(req.score)
          /\ Val(req.score) <= disk.settings.maxScore )
        => LET r == predict(disk, req, clk[1], clk[2], clk[3])
               key == InningsKey(req.innings)
               otherKey == IF key = "innings1" THEN "innings2" ELSE "innings1"
               before == MatchById(disk, req.id).predictions
           IN  /\ r.code = 200
               /\ \A d \in Outcome(r) :
                    LET after == MatchById(d, req.id).predictions
                    IN  /\ req.id \in MatchIds(d)
                        /\ DOMAIN after[key] = DOMAIN before[key] \cup {req.playerId}
                        /\ after[key][req.playerId] = (Val(req.score) + 1) \div 2
                        /\ \A q \in DOMAIN before[key] :
                               q # req.playerId => after[key][q] = before[key][q]
                        /\ after[otherKey] = before[otherKey]
                        /\ \A id \in MatchIds(disk) :
                               id # req.id =>
                                   /\ id \in MatchIds(d)
                                   /\ MatchById(d, id).predictions
                                        = MatchById(disk, id).predictions

C3_Witness ==
    /\ resp = [op |-> "predict", code |-> 200, error |-> ""]
    /\ \E i \in 1..Len(disk.matches) :
        /\ 1 \in DOMAIN disk.matches[i].predictions.innings1
        /\ 1 \in DOMAIN disk.matches[i].predictions.innings2
        /\ disk.matches[i].innings2.status = "open"

\* C4: the error of a refused predict request is that of the first failing
\* precondition in the order toss set, innings open (status open and lock time
\* not reached), known player, score within the bounds; and a refused request
\* leaves the predictions as they were.
C4_FirstFailingPrecondition ==
    \A req \in AnyPredictReqs, clk \in Clocks(3) :
        req.id \in MatchIds(disk)
        => LET r == predict(disk, req, clk[1], clk[2], clk[3])
               m == MatchById(disk, req.id)
               inn == m[InningsKey(req.innings)]
               tossUnset == m.toss = None
               notOpen == \/ inn.status # "open"
                          \/ IsSome(inn.lockTime) /\ clk[3] >= Val(inn.lockTime)
               unknownPlayer == req.playerId \notin PlayerIdsOf(disk.players)
               outOfRange == \/ req.score = None
                             \/ Val(req.score) < disk.settings.minScore
                             \/ Val(req.score) > disk.settings.maxScore
           IN  /\ IF tossUnset
                  THEN r.code = 400 /\ r.error = "Set the toss before predictions."
                  ELSE IF notOpen
                  THEN r.code = 403 /\ r.error \in
                          {"Predictions are not open for this innings.",
                           "Predictions are locked."}
                  ELSE IF unknownPlayer
                  THEN r.code = 400 /\ r.error = "Invalid player."
                  ELSE IF outOfRange
                  THEN r.code = 400 /\ r.error = "Score must be between min and max."
                  ELSE r.code = 200
               /\ r.code # 200
                    => \A d \in Outcome(r) : PredictionsOf(d) = PredictionsOf(disk)

\* A request of an unknown player with a score out of range has been refused
\* for the toss, which is not set, in a room whose match has a locked innings.
C4_Witness ==
    /\ resp = [op |-> "predict", code |-> 400, error |-> "Set the toss before predictions."]
    /\ \E i \in 1..Len(disk.matches) :
        /\ disk.matches[i].toss = None
        /\ disk.matches[i].innings1.status = "locked"

\* ---------------------------------------------------- any request, every handler
AnyLockReqs == [ id : ReqMatchIds, adminPin : PinInputs, innings : InningsInputs ]
AnyTossReqs ==
    [ id : ReqMatchIds, adminPin : PinInputs,
      winner : TeamNames \cup {""}, decision : {"bat", "field", "bowl"} ]
AnyScoreReqs ==
    [ id : ReqMatchIds, adminPin : PinInputs, innings : InningsInputs,
      actualScore : RawScores, innings2StartTime : DateInputs ]
AnyReopenReqs == [ id : ReqMatchIds, adminPin : PinInputs, innings : {0, 1, 2} ]
AnyCreateReqs ==
    [ adminPin : PinInputs, teamA : {"A", ""}, teamB : {"B", ""},
      matchDate : DateInputs, lockTime : {None, Some(0)} ]
AnyAdminReqs == [ adminPin : PinInputs ]
AnyFixtureRows ==
    [ MatchNumber : {1, 2}, HomeTeam : {"A", "C", ""}, AwayTeam : {"B"}, DateUtc : DateInputs ]
AnyFeeds == { FailedFeed } \cup { Feed(r) : r \in SeqsUpTo(AnyFixtureRows, 1) }
AnyTossItems ==
    [ id : {None, Some(7)}, localTeam : {"b", "c"}, visitorTeam : {"a", ""},
      date : {None, Some(0), Some(1)},
      tossText : { None,
                   Some([string |-> TRUE, mentions |-> {"a"}, words |-> {"bat"}]),
                   Some([string |-> TRUE, mentions |-> {"a", "b"}, words |-> {"bowl", "bat"}]),
                   Some([string |-> TRUE, mentions |-> {"b"}, words |-> {}]),
                   Some([string |-> TRUE, mentions |-> {"c"}, words |-> {"field"}]),
                   Some([string |-> FALSE, mentions |-> {}, words |-> {}]) } ]
AnyTossFeeds == { FailedTossFeed } \cup { TossFeed(r) : r \in SeqsUpTo(AnyTossItems, 1) }
AnySetupReqs ==
    [ nPlayers : {MinPlayers - 1, MinPlayers}, usePin : BOOLEAN, adminPin : PinInputs \cup {"12"},
      bonusExact : {0}, minScore : MinScoreInputs, maxScore : MaxScoreInputs,
      lockMinutesBeforeStart : LockOffsetInputs, importSchedule : BOOLEAN ]

\* The responses and the rooms the store can hold after one request, per
\* operation: a set of [r, d], r the handler's result and d the room.
Results(rs) == UNION { { [r |-> r, d |-> d] : d \in Outcome(r) } : r \in rs }

PredictResults ==
    Results({ predict(disk, req, clk[1], clk[2], clk[3]) :
                req \in AnyPredictReqs, clk \in Clocks(3) })
LockResults ==
    Results({ lock(disk, req, clk[1], clk[2]) : req \in AnyLockReqs, clk \in Clocks(2) })
TossResults == Results({ toss(disk, req) : req \in AnyTossReqs })
ScoreResults ==
    Results({ score(disk, req, clk[1], clk[2]) : req \in AnyScoreReqs, clk \in Clocks(2) })
ReopenResults ==
    Results({ reopen(disk, req, clk[1], clk[2]) : req \in AnyReopenReqs, clk \in Clocks(2) })
CreateResults == Results({ createMatch(disk, req) : req \in AnyCreateReqs })
ImportResults ==
    Results({ scheduleImport(disk, req, feed, clk) :
                req \in AnyAdminReqs, feed \in AnyFeeds,
                clk \in Clocks(2 * Len(disk.matches) + 1) })
TossSyncResults ==
    Results({ tossSync(disk, req, configured, feed, clk[1], clk[2]) :
                req \in AnyAdminReqs, configured \in BOOLEAN, feed \in AnyTossFeeds,
                clk \in Clocks(2) })
GetStateResults ==
    Results({ getState(disk, configured, feed, clk) :
                configured \in BOOLEAN, feed \in AnyTossFeeds,
                clk \in Clocks(2 * Len(disk.matches) + 2) })

\* The order of the innings states.
StatusRank(status) ==
    CASE status = "pending" -> 0
      [] status = "open" -> 1
      [] status = "locked" -> 2
      [] status = "scored" -> 3

\* C5: no operation other than reopen moves the status of an innings of a
\* match backward in the order pending, open, locked, scored.
C5_StatusNeverMovesBack ==
    \A x \in PredictResults \cup LockResults \cup TossResults \cup ScoreResults
             \cup CreateResults \cup ImportResults \cup TossSyncResults
             \cup GetStateResults :
        \A id \in MatchIds(disk) \cap MatchIds(x.d) :
            /\ StatusRank(MatchById(x.d, id).innings1.status)
                 >= StatusRank(MatchById(disk, id).innings1.status)
            /\ StatusRank(MatchById(x.d, id).innings2.status)
                 >= StatusRank(MatchById(disk, id).innings2.status)

\* C6: in every step that takes innings2 of a match out of pending, innings1
\* of that match is scored.
C6_Innings2LeavesPendingOnlyAfterInnings1 ==
    \A x \in PredictResults \cup LockResults \cup TossResults \cup ScoreResults
             \cup ReopenResults \cup GetStateResults :
        \A id \in MatchIds(disk) \cap MatchIds(x.d) :
            ( /\ MatchById(disk, id).innings2.status = "pending"
              /\ MatchById(x.d, id).innings2.status # "pending" )
            => MatchById(x.d, id).innings1.status = "scored"

\* C7: in every stored room, read as it is or normalized, a scored innings
\* has an integer score and, when a room player has a prediction for it, a
\* stored result.
ScoredInningsComplete(d) ==
    \A i \in 1..Len(d.matches), key \in {"innings1", "innings2"} :
        d.matches[i][key].status = "scored"
        => /\ IsSome(d.matches[i][key].score)
           /\ Val(d.matches[i][key].score) \in Int
           /\ (PlayerIdsOf(d.players) \cap DOMAIN d.matches[i].predictions[key] # {})
                => /\ IsSome(d.matches[i].result)
                   /\ IsSome(Val(d.matches[i].result)[key])

C7_ScoredInningsHasScoreAndResult ==
    /\ ScoredInningsComplete(disk)
    /\ \A clk \in Clocks(2 * Len(disk.matches)) :
           ScoredInningsComplete(NormalizeAll(disk, clk))

C7_Witness ==
    /\ resp = [op |-> "score", code |-> 200, error |-> ""]
    /\ \E i \in 1..Len(disk.matches) :
        /\ disk.matches[i].innings2.status = "scored"
        /\ DOMAIN disk.matches[i].predictions.innings2 # {}
        /\ IsSome(Val(disk.matches[i].result).innings2)
        /\ disk.matches[i].innings1.status # "scored"

\* C8: the toss of every match names one of the match's two current teams as
\* winner, with the decision bat or field.
C8_TossConsistentWithTeams ==
    \A i \in 1..Len(disk.matches) :
        IsSome(disk.matches[i].toss)
        => /\ Val(disk.matches[i].toss).winner
                \in {disk.matches[i].teamA, disk.matches[i].teamB}
           /\ Val(disk.matches[i].toss).decision \in {"bat", "field"}

\* The request carries the PIN the room was set up with.
CarriesAdminPin(pin) ==
    pin # "" /\ disk.settings.adminPinHash = Some(<<"sha256", pin>>)

\* C9: in a room with PIN mode enabled, a setup request that does not carry
\* the room's admin PIN is rejected and leaves the stored room as it is.
C9_SetupNeedsAdminPin ==
    disk.settings.usePin
    => \A req \in AnySetupReqs, feed \in AnyFeeds :
          ~CarriesAdminPin(req.adminPin)
          => /\ setup(req, feed).code # 200
             /\ Outcome(setup(req, feed)) = { disk }

\* The admin operations put to the room of the current state: the PIN of the
\* request, whether the match it addresses exists, and the handler's result.
Attempt(pin, found, r) == [pin |-> pin, found |-> found, r |-> r]

AdminAttempts ==
    { Attempt(req.adminPin, TRUE, createMatch(disk, req)) : req \in AnyCreateReqs }
    \cup { Attempt(req.adminPin, req.id \in MatchIds(disk), lock(disk, req, clk[1], clk[2])) :
             req \in AnyLockReqs, clk \in Clocks(2) }
    \cup { Attempt(req.adminPin, req.id \in MatchIds(disk), toss(disk, req)) :
             req \in AnyTossReqs }
    \cup { Attempt(req.adminPin, req.id \in MatchIds(disk), score(disk, req, clk[1], clk[2])) :
             req \in [ id : ReqMatchIds, adminPin : PinInputs, innings : InningsInputs,
                       actualScore : {None, Some(3)}, innings2StartTime : {None} ],
             clk \in Clocks(2) }
    \cup { Attempt(req.adminPin, req.id \in MatchIds(disk), reopen(disk, req, clk[1], clk[2])) :
             req \in AnyReopenReqs, clk \in Clocks(2) }
    \cup { Attempt(req.adminPin, TRUE, scheduleImport(disk, req, feed, clk)) :
             req \in AnyAdminReqs,
             feed \in { FailedFeed } \cup { Feed(r) : r \in SeqsUpTo(RoomRows, 1) },
             clk \in Clocks(2 * Len(disk.matches) + 1) }
    \cup { Attempt(req.adminPin, TRUE, tossSync(disk, req, configured, feed, clk[1], clk[2])) :
             req \in AnyAdminReqs, configured \in BOOLEAN, feed \in RoomTossFeeds,
             clk \in Clocks(2) }

\* C10 as stated: with PIN mode enabled, every admin operation issued with a
\* missing or wrong PIN is answered with the authorization error and leaves
\* the stored room as it is; with PIN mode disabled none is refused for the PIN.
C10_WrongPinIsAuthorizationError ==
    \A a \in AdminAttempts :
        /\ (disk.settings.usePin /\ ~CarriesAdminPin(a.pin))
             => /\ a.r.code = 403
                /\ a.r.error = "Invalid admin PIN."
                /\ Outcome(a.r) = { disk }
        /\ ~disk.settings.usePin => a.r.code # 403

\* C10 as amended: with PIN mode enabled, every admin operation issued with a
\* missing or wrong PIN is rejected and leaves the stored room as it is; the
\* error is the authorization error, except that lock, toss, score and reopen
\* for a match id the room does not have are answered "not found" before the
\* PIN is looked at.  With PIN mode disabled none is refused for the PIN.
C10_WrongPinIsRejected ==
    \A a \in AdminAttempts :
        /\ (disk.settings.usePin /\ ~CarriesAdminPin(a.pin))
             => /\ IF a.found
                   THEN a.r.code = 403 /\ a.r.error = "Invalid admin PIN."
                   ELSE a.r.code = 404 /\ a.r.error = "Match not found."
                /\ Outcome(a.r) = { disk }
        /\ ~disk.settings.usePin => a.r.code # 403

\* A lock request with a wrong PIN has just been refused in a room with PIN
\* mode enabled whose match has an open innings1 and predictions.
C10_Witness ==
    /\ resp = [op |-> "lock", code |-> 403, error |-> "Invalid admin PIN."]
    /\ disk.settings.usePin
    /\ \E i \in 1..Len(disk.matches) :
        /\ disk.matches[i].innings1.status = "open"
        /\ DOMAIN disk.matches[i].predictions.innings1 # {}

\* ------------------------------------------------------- score and reopen
OtherKey(key) == IF key = "innings1" THEN "innings2" ELSE "innings1"

C16_BadScoreIsRejected ==
    \A req \in AnyScoreReqs, clk \in Clocks(2) :
        ( /\ req.id \in MatchIds(disk)
          /\ \/ req.actualScore = None
             \/ Val(req.actualScore) < disk.settings.minScore
             \/ Val(req.actualScore) > disk.settings.maxScore
             \/ /\ req.innings = 2
                /\ MatchById(disk, req.id).innings2.status = "pending" )
        => LET r == score(disk, req, clk[1], clk[2])
           IN  /\ r.code \in {400, 403}
               /\ r.error # ""
               /\ Outcome(r) = { disk }

\* A score request for the pending innings2 has just been refused in a room
\* whose match has predictions for innings1.
C16_Witness ==
    /\ resp = [op |-> "score", code |-> 400, error |-> "Innings 2 is not open yet."]
    /\ \E i \in 1..Len(disk.matches) :
        /\ disk.matches[i].innings2.status = "pending"
        /\ DOMAIN disk.matches[i].predictions.innings1 # {}

\* C17: a reopen of the single innings k of an existing match leaves innings
\* k open with no score and no stored result, and leaves the other innings
\* (status as normalization leaves it, score, lockTime), the other innings'
\* stored result, the predictions of both innings and the toss as they were.
C17_ReopenInningsClearsOnlyThatInnings ==
    \A req \in AnyReopenReqs, clk \in Clocks(2) :
        ( /\ req.id \in MatchIds(disk)
          /\ ensureAdmin(disk, req.adminPin)
          /\ req.innings \in {1, 2} )
        => LET r == reopen(disk, req, clk[1], clk[2])
               key == InningsKey(req.innings)
               other == OtherKey(key)
               before == MatchById(disk, req.id)
           IN  /\ r.code = 200
               /\ \A d \in Outcome(r) :
                    LET after == MatchById(d, req.id)
                    IN  /\ req.id \in MatchIds(d)
                        /\ after[key].status = "open"
                        /\ after[key].score = None
                        /\ IsSome(after.result) => Val(after.result)[key] = None
                        /\ after[other] \in { normalizeInningsStatus(before[other], t) :
                                                t \in {clk[1], clk[2]} }
                        /\ IsSome(before.result)
                             => /\ IsSome(after.result)
                                /\ Val(after.result)[other] = Val(before.result)[other]
                        /\ after.predictions = before.predictions
                        /\ after.toss = before.toss

\* C18: a whole-match reopen of an existing match, whatever the states of its
\* innings, leaves innings1 open with no score, innings2 pending with no score
\* and no lock time, and no result, and keeps the predictions and the toss.
C18_ReopenMatchResetsBothInnings ==
    \A req \in AnyReopenReqs, clk \in Clocks(2) :
        ( /\ req.id \in MatchIds(disk)
          /\ ensureAdmin(disk, req.adminPin)
          /\ req.innings = 0 )
        => LET r == reopen(disk, req, clk[1], clk[2])
               before == MatchById(disk, req.id)
           IN  /\ r.code = 200
               /\ \A d \in Outcome(r) :
                    LET after == MatchById(d, req.id)
                    IN  /\ req.id \in MatchIds(d)
                        /\ after.innings1.status = "open"
                        /\ after.innings1.score = None
                        /\ after.innings2 = [status |-> "pending", lockTime |-> None,
                                             score |-> None]
                        /\ after.result = None
                        /\ after.predictions = before.predictions
                        /\ after.toss = before.toss

\* ------------------------------------------------------------ batting order
\* The tosses getBattingTeams is asked about: the stored one of the match and
\* the absent and half-set ones.
TossesOf(match) ==
    { match.toss, None,
      Some([winner |-> "", decision |-> "bat"]),
      Some([winner |-> match.teamA, decision |-> ""]) }

\* C20: getBattingTeams is absent when the toss or one of its fields is
\* unset; otherwise innings1 is batted by the toss winner and innings2 by the
\* other team when the decision is bat, the reverse when it is field, the
\* other team being the one of teamA and teamB that is not the winner, so
\* that teamA and teamB bat one innings each.
C20_BattingTeamsAreTheTwoTeams ==
    \A i \in 1..Len(disk.matches) : \A t \in TossesOf(disk.matches[i]) :
        LET match == [disk.matches[i] EXCEPT !.toss = t]
            teams == getBattingTeams(match)
        IN  IF t = None \/ Val(t).winner = "" \/ Val(t).decision = ""
            THEN teams = None
            ELSE /\ IsSome(teams)
                 /\ Val(t).decision = "bat" => Val(teams).innings1 = Val(t).winner
                 /\ Val(t).decision = "field" => Val(teams).innings2 = Val(t).winner
                 /\ { Val(teams).innings1, Val(teams).innings2 }
                      = { match.teamA, match.teamB }

\* ------------------------------------------------------------ the result
\* A room without PIN whose players predict against each other: one fixture,
\* up to MaxRivals predictors for innings1, scores that tie and that do not.
ScoringSetupReqs ==
    [ nPlayers : {MinPlayers}, usePin : {FALSE}, adminPin : {""},
      bonusExact : {0}, minScore : {2}, maxScore : {10},
      lockMinutesBeforeStart : LockOffsetInputs, importSchedule : {FALSE} ]

NextScoring ==
    \/ Setup(ScoringSetupReqs, {FailedFeed})
    \/ CreateMatch([ adminPin : {""}, teamA : {"A"}, teamB : {"B"},
                     matchDate : {None}, lockTime : {None} ])
    \/ Toss([ id : {1}, adminPin : {""}, winner : {"B"}, decision : {"field"} ])
    \/ Predict([ id : {1}, innings : {1}, playerId : 1..MaxRivals,
                 score : {Some(4), Some(8), Some(10)} ])
    \/ Score([ id : {1}, adminPin : {""}, innings : {1},
               actualScore : {Some(6), Some(7)}, innings2StartTime : {None} ])
    \/ Reopen([ id : {1}, adminPin : {""}, innings : {1} ])

SpecScoring == Init /\ [][NextScoring]_vars

\* The prediction maps computeInningsResult is asked about: those of the
\* stored matches, as they are and with a prediction of a player the room
\* does not have (id 0) that hits the score.
PredictionMaps(hit) ==
    UNION { { disk.matches[i].predictions[key],
              (0 :> hit) @@ disk.matches[i].predictions[key] } :
            i \in 1..Len(disk.matches), key \in {"innings1", "innings2"} }

\* C19: computeInningsResult is absent for an absent score; otherwise its
\* winners are exactly the room players with a prediction whose distance to
\* the score is the least among the predicting room players, each once, and
\* closestDiff is that distance; with no predicting room player winners is
\* empty and closestDiff absent.
C19_WinnersAreTheClosest ==
    /\ \A predictions \in PredictionMaps(1) :
          computeInningsResult(None, predictions, disk.players) = None
    /\ \A actual \in 1..5 : \A predictions \in PredictionMaps(actual) :
          LET r == computeInningsResult(Some(actual), predictions, disk.players)
              known == PlayerIdsOf(disk.players) \cap DOMAIN predictions
              dist(id) == IF predictions[id] >= actual THEN predictions[id] - actual
                          ELSE actual - predictions[id]
              closest == { id \in known : \A other \in known : dist(id) <= dist(other) }
          IN  /\ IsSome(r)
              /\ { Val(r).winners[k] : k \in 1..Len(Val(r).winners) } = closest
              /\ Len(Val(r).winners) = Cardinality(closest)
              /\ IF known = {} THEN Val(r).closestDiff = None
                 ELSE /\ IsSome(Val(r).closestDiff)
                      /\ \A id \in closest : Val(Val(r).closestDiff) = dist(id)

\* Innings1 has just been scored: two of three predictors share the win at
\* distance 1, the third is further off.
C19_Witness ==
    /\ resp = [op |-> "score", code |-> 200, error |-> ""]
    /\ \E i \in 1..Len(disk.matches) :
        /\ Cardinality(DOMAIN disk.matches[i].predictions.innings1) = 3
        /\ IsSome(disk.matches[i].result)
        /\ IsSome(Val(disk.matches[i].result).innings1)
        /\ Len(Val(Val(disk.matches[i].result).innings1).winners) = 2
        /\ Val(Val(disk.matches[i].result).innings1).closestDiff = Some(1)

\* ------------------------------------------------------------ the toss feed
\* A room without PIN with up to MaxFixtures fixtures waiting for their toss,
\* read and synced while the toss feed answers, fails, or answers with a toss
\* text that is no string.
FeedItemAB ==
    [ id |-> Some(7), localTeam |-> "a", visitorTeam |-> "b", date |-> None,
      tossText |-> Some([string |-> TRUE, mentions |-> {"a"}, words |-> {"bat"}]) ]
FeedItemCB ==
    [ id |-> Some(8), localTeam |-> "c", visitorTeam |-> "b", date |-> None,
      tossText |-> Some([string |-> TRUE, mentions |-> {"b", "c"}, words |-> {"field"}]) ]
FeedItemCBNumber ==
    [ id |-> Some(8), localTeam |-> "c", visitorTeam |-> "b", date |-> None,
      tossText |-> Some([string |-> FALSE, mentions |-> {}, words |-> {}]) ]

NextFeed ==
    \/ CreateMatchUpTo([ adminPin : {""}, teamA : {"A", "C"}, teamB : {"B"},
                         matchDate : {None}, lockTime : {None} ], MaxFixtures)
    \/ TossSync([ adminPin : {""} ], {TRUE},
                { FailedTossFeed, TossFeed(<<FeedItemCB>>) })
    \/ GetState({TRUE}, { FailedTossFeed, TossFeed(<<FeedItemAB, FeedItemCBNumber>>),
                          TossFeed(<<FeedItemCBNumber>>) })
    \/ Reopen([ id : {1}, adminPin : {""}, innings : {0} ])
    \/ Tick

SpecFeed == Init /\ [][NextFeed]_vars

\* The answers of the toss feed a state read is checked against.
FailingFeeds ==
    { FailedTossFeed }
    \cup { TossFeed(items) : items \in SeqsUpTo({FeedItemAB, FeedItemCB, FeedItemCBNumber}, 2) }

\* The toss and the feed id of every match of a room, by match id.
TossesIn(d) ==
    { <<d.matches[i].id, d.matches[i].toss, d.matches[i].goalserveMatchId>> :
        i \in 1..Len(d.matches) }

\* C13: when the toss sync of a state read fails (the feed cannot be fetched
\* or parsed, or a toss text of it cannot be parsed), the read still answers
\* 200 with the normalized room, and in the room it returns and in every room
\* the store can hold afterwards each match has the toss and the feed id it
\* was loaded with.
C13_FeedFailureLeavesTossAlone ==
    \A feed \in FailingFeeds, clk \in Clocks(2 * Len(disk.matches) + 2) :
        LET n == Len(disk.matches)
            normalized == NormalizeAll(disk, clk)
            sync == syncTossFromGoalserve(normalized, FALSE, TRUE, feed,
                                          clk[2 * n + 1], clk[2 * n + 2])
            r == getState(disk, TRUE, feed, clk)
        IN  sync.threw
            => /\ r.code = 200
               /\ r.data.players = disk.players
               /\ \A i \in 1..n :
                    /\ r.data.matches[i].innings1 = normalized.matches[i].innings1
                    /\ r.data.matches[i].innings2 = normalized.matches[i].innings2
               /\ TossesIn(r.data) = TossesIn(disk)
               /\ \A d \in Outcome(r) : TossesIn(d) = TossesIn(disk)

\* ------------------------------------------------------ overlapping requests
\* Requests served on several connections at once.  With the file backend
\* readData and saveData are synchronous: a handler runs from its start to its
\* first real await (the fetch of a feed) or to its end in one piece.  With
\* Postgres readData is three queries, each seeing what is committed when it
\* runs, and saveData is one transaction, visible as a whole at its COMMIT;
\* the transactions of two saveData calls are taken one after the other.
AsyncSetupReq ==
    [ nPlayers |-> MinPlayers, usePin |-> FALSE, adminPin |-> "",
      bonusExact |-> 0, minScore |-> 2, maxScore |-> 4,
      lockMinutesBeforeStart |-> 1, importSchedule |-> FALSE ]

\* The requests connection p sends.
AsyncReqs(p) ==
    { [op |-> "setup", req |-> Some(AsyncSetupReq)],
      [op |-> "create", req |-> Some([ adminPin |-> "", teamA |-> "A", teamB |-> "B",
                                       matchDate |-> None, lockTime |-> None ])],
      [op |-> "toss", req |-> Some([ id |-> 1, adminPin |-> "", winner |-> "A",
                                     decision |-> "bat" ])],
      [op |-> "predict", req |-> Some([ id |-> 1, innings |-> 1, playerId |-> p,
                                        score |-> Some(2 * (p + 1)) ])],
      [op |-> "state", req |-> None] }

NowClock(data) == [ j \in 1..(2 * Len(data.matches) + 2) |-> now ]

\* The state read goes to the toss feed (GOALSERVE_TOSS_FEED_URL is set).
NeedsFetch(data) ==
    syncTossFromGoalserve(NormalizeAll(data, NowClock(data)), FALSE, TRUE,
                          FailedTossFeed, now, now).fetched

\* The handler of a request that does not go to a feed, on the room `data`.
Handle(op, req, data) ==
    CASE op = "setup" -> setup(Val(req), FailedFeed)
      [] op = "create" -> createMatch(data, Val(req))
      [] op = "toss" -> toss(data, Val(req))
      [] op = "predict" -> predict(data, Val(req), now, now, now)
      [] op = "state" -> getState(data, TRUE, FailedTossFeed, NowClock(data))

InFlight(rec) == rec.pc \notin {"idle", "done"}

\* What the connection `other` records when a request is saved as room d.
Observe(other, op, req, d) ==
    IF other.pc = "done" THEN Idle
    ELSE IF other.pc = "idle" THEN other
    ELSE [other EXCEPT !.others = Append(@, [op |-> op, req |-> req]),
                       !.seen = IF other.pc \in {"players", "matches"}
                                THEN @ \cup {d} ELSE @]

\* The handler of connection p has its result r: it answers, after saveData
\* if it calls it.
Answer(p, rec, r) ==
    /\ disk' \in OutcomeOn(disk, r)
    /\ resp' = [ op |-> rec.op,
                 code |-> IF SaveThrows(r) THEN 500 ELSE r.code,
                 error |-> IF SaveThrows(r) THEN "saveData failed" ELSE r.error ]
    /\ inflight' = [ q \in Procs |->
                       IF q = p THEN [rec EXCEPT !.pc = "done", !.r = Some(r)]
                       ELSE IF r.save /\ ~SaveThrows(r)
                       THEN Observe(inflight[q], rec.op, rec.req, disk')
                       ELSE inflight[q] ]
    /\ UNCHANGED <<useDb, now>>

Suspend(p, rec) ==
    /\ inflight' = [inflight EXCEPT ![p] = rec]
    /\ UNCHANGED <<useDb, disk, now, resp>>

\* The handler from the return of readData (or from its start, for setup) to
\* its next await.
RunHandler(p, rec) ==
    LET data == IF rec.loaded = None THEN defaultData ELSE Val(rec.loaded)
    IN  IF rec.op = "state" /\ NeedsFetch(data)
        THEN Suspend(p, [rec EXCEPT !.pc = "fetch"])
        ELSE LET r == Handle(rec.op, rec.req, data)
             IN  IF r.save /\ useDb
                 THEN Suspend(p, [rec EXCEPT !.pc = "save", !.r = Some(r)])
                 ELSE Answer(p, rec, r)

\* A request arrives on connection p: the handler starts and calls readData.
Begin(p) ==
    \E a \in AsyncReqs(p) :
        /\ ~InFlight(inflight[p])
        /\ \A q \in Procs : InFlight(inflight[q]) => Len(inflight[q].others) < MaxOverlap
        /\ a.op = "create" => Len(disk.matches) < MaxMatches
        /\ LET rec == [Idle EXCEPT !.op = a.op, !.req = a.req, !.start = Some(disk)]
           IN  IF a.op = "setup"
               THEN RunHandler(p, rec)
               ELSE IF ~useDb
               THEN RunHandler(p, [rec EXCEPT !.loaded = Some(disk), !.seen = {disk}])
               ELSE Suspend(p, [rec EXCEPT !.pc = "players", !.seen = {disk},
                                           !.part.settings = disk.settings])

\* SELECT id, name FROM players ORDER BY name ASC
ReadPlayers(p) ==
    /\ inflight[p].pc = "players"
    /\ Suspend(p, [inflight[p] EXCEPT !.pc = "matches", !.part.players = disk.players])

\* SELECT * FROM matches ...: readData returns and the handler runs on.
ReadMatches(p) ==
    /\ inflight[p].pc = "matches"
    /\ RunHandler(p, [inflight[p] EXCEPT
                        !.loaded = Some([inflight[p].part EXCEPT !.matches = disk.matches]),
                        !.part = defaultData])

\* The toss feed answers the fetch of a state read, or fails.
FeedAnswers(p) ==
    \E feed \in { FailedTossFeed, TossFeed(<<FeedItemAB>>) } :
        /\ inflight[p].pc = "fetch"
        /\ LET data == Val(inflight[p].loaded)
               r == getState(data, TRUE, feed, NowClock(data))
           IN  IF useDb
               THEN Suspend(p, [inflight[p] EXCEPT !.pc = "save", !.r = Some(r)])
               ELSE Answer(p, inflight[p], r)

\* COMMIT of the saveData transaction.
Commit(p) ==
    /\ inflight[p].pc = "save"
    /\ Answer(p, inflight[p], Val(inflight[p].r))

\* The steps the server takes by itself once a request is in.
Continue(p) == ReadPlayers(p) \/ ReadMatches(p) \/ Commit(p)

NextAsync ==
    \E p \in Procs :
        \/ Begin(p)
        \/ ReadPlayers(p)
        \/ ReadMatches(p)
        \/ FeedAnswers(p)
        \/ Commit(p)

\* The database answers every query; nothing makes the toss feed answer.
SpecAsync == Init /\ [][NextAsync]_vars /\ \A p \in Procs : WF_vars(Continue(p))

\* The rooms the store can hold after the request a is served alone on `room`.
ServedAlone(a, room) == OutcomeOn(room, Handle(a.op, a.req, room))

\* The rooms the store can hold after a and b are served one after the other,
\* in either order.
SerialResults(a, b, room) ==
    UNION { ServedAlone(b, m) : m \in ServedAlone(a, room) }
        \cup UNION { ServedAlone(a, m) : m \in ServedAlone(b, room) }

MutatingOps == { "create", "toss", "predict" }

\* C11: when two mutating requests overlap, the room stored once both are
\* answered is the result of serving them one after the other in some order.
C11_OverlappingMutationsSerialize ==
    \A p \in Procs :
        LET rec == inflight[p]
        IN  ( /\ rec.pc = "done"
              /\ rec.op \in MutatingOps
              /\ Len(rec.others) = 1
              /\ rec.others[1].op \in MutatingOps )
            => disk \in SerialResults([op |-> rec.op, req |-> rec.req],
                                      rec.others[1], Val(rec.start))

\* C12: the room readData returns is a room the store held, whole, at some
\* moment while readData ran.
C12_ReadDataReturnsOneSnapshot ==
    \A p \in Procs :
        inflight[p].loaded # None => Val(inflight[p].loaded) \in inflight[p].seen

\* C14: a state read that has arrived is eventually answered, whatever the
\* toss feed does.
C14_StateReadEventuallyResponds ==
    \A p \in Procs :
        (inflight[p].op = "state" /\ InFlight(inflight[p])) ~> (inflight[p].pc = "done")

\* What the request a, once saved, has put into the room: the match created,
\* the toss set, the prediction stored.
EffectIn(a, d) ==
    CASE a.op = "create" -> Len(d.matches) >= 1
      [] a.op = "toss" ->
            /\ FindMatch(d, Val(a.req).id) # 0
            /\ MatchById(d, Val(a.req).id).toss =
                  Some([winner |-> Val(a.req).winner, decision |-> Val(a.req).decision])
      [] a.op = "predict" ->
            /\ FindMatch(d, Val(a.req).id) # 0
            /\ Val(a.req).playerId
                  \in DOMAIN MatchById(d, Val(a.req).id).predictions.innings1

\* C32: when a mutating request was saved while a state read was being
\* served, the room stored once the state read is answered too still holds
\* what the mutating request put into it.
C32_StateReadKeepsOverlappingMutation ==
    \A p \in Procs :
        LET rec == inflight[p]
        IN  ( /\ rec.pc = "done"
              /\ rec.op = "state"
              /\ Len(rec.others) = 1
              /\ rec.others[1].op \in MutatingOps )
            => EffectIn(rec.others[1], disk)

\* ----------------------------------------------------------- the scoreboard
\* Rooms with scored innings for the scoreboard: two matches, two of the four
\* players predicting, exact and inexact predictions, with and without bonus.
BoardSetupReqs ==
    [ nPlayers : {MinPlayers}, usePin : {FALSE}, adminPin : {""},
      bonusExact : {0, 2}, minScore : {2}, maxScore : {10},
      lockMinutesBeforeStart : LockOffsetInputs, importSchedule : {FALSE} ]

NextBoard ==
    \/ Setup(BoardSetupReqs, {FailedFeed})
    \/ CreateMatchUpTo([ adminPin : {""}, teamA : {"A"}, teamB : {"B"},
                         matchDate : {None}, lockTime : {None} ], MaxFixtures)
    \/ Toss([ id : 1..MaxFixtures, adminPin : {""}, winner : {"A"}, decision : {"bat"} ])
    \/ Predict([ id : {1}, innings : {1}, playerId : 1..2, score : {Some(4), Some(8)} ]
                   \cup [ id : {2}, innings : {1}, playerId : {1}, score : {Some(4)} ]
                   \cup [ id : {2}, innings : {1}, playerId : {2}, score : {Some(8)} ])
    \/ Score([ id : 1..MaxFixtures, adminPin : {""}, innings : {1},
               actualScore : {Some(4), Some(6)}, innings2StartTime : {None} ])
    \/ Reopen([ id : {1}, adminPin : {""}, innings : {1} ])
    \/ GetState({FALSE}, {FailedTossFeed})

SpecBoard == Init /\ [][NextBoard]_vars

\* The rooms a scoreboard is built of: the stored room as a state read
\* normalizes it, and the stored room itself.
BoardRooms == { disk, getState(disk, FALSE, FailedTossFeed, NowClock(disk)).data }

InningsKeys == { "innings1", "innings2" }

\* The innings (match index, key) of the room d that are scored with a score
\* present and in which the player id has a prediction.
ScoredWith(d, id) ==
    { e \in (1..Len(d.matches)) \X InningsKeys :
        /\ d.matches[e[1]][e[2]].status = "scored"
        /\ IsSome(d.matches[e[1]][e[2]].score)
        /\ id \in DOMAIN d.matches[e[1]].predictions[e[2]] }

\* The distance of the player's prediction to the score of the innings e.
DistIn(d, e, id) ==
    LET prediction == d.matches[e[1]].predictions[e[2]][id]
        actual == Val(d.matches[e[1]][e[2]].score)
    IN  IF prediction >= actual THEN prediction - actual ELSE actual - prediction

\* The innings the player id wins: no predicting player of the room is closer.
WonBy(d, id) ==
    { e \in ScoredWith(d, id) :
        \A other \in PlayerIdsOf(d.players) :
            e \in ScoredWith(d, other) => DistIn(d, e, id) <= DistIn(d, e, other) }

Range(seq) == { seq[k] : k \in 1..Len(seq) }

RowOf(board, id) == board[CHOOSE k \in 1..Len(board) : board[k].playerId = id]

\* C21: a player's wins is the number of innings the player wins, the points
\* are the wins plus bonusExact for each innings won with the exact score
\* when bonusExact > 0; innings the player does not win add no points.
C21_PointsAreWinsPlusExactBonus ==
    \A d \in BoardRooms : \A row \in Range(buildScoreboard(d)) :
        LET id == row.playerId
            won == WonBy(d, id)
            exact == { e \in won : DistIn(d, e, id) = 0 }
        IN  /\ row.wins = Cardinality(won)
            /\ row.points = Cardinality(won) +
                  (IF d.settings.bonusExact > 0
                   THEN d.settings.bonusExact * Cardinality(exact) ELSE 0)

\* A state read has answered a room with bonus 2 in which player 1 won one
\* innings with the exact score and another without, and player 2 won none.
C21_Witness ==
    /\ resp.op = "state" /\ resp.code = 200
    /\ disk.settings.bonusExact = 2
    /\ Cardinality(WonBy(disk, 1)) = 2
    /\ Cardinality({ e \in WonBy(disk, 1) : DistIn(disk, e, 1) = 0 }) = 1
    /\ ScoredWith(disk, 2) # {} /\ WonBy(disk, 2) = {}
    /\ RowOf(buildScoreboard(disk), 1).points = 4
    /\ RowOf(buildScoreboard(disk), 2).points = 0

\* The sum of the player's distances over the innings of S.
RECURSIVE SumDist(_, _, _)
SumDist(d, S, id) ==
    IF S = {} THEN 0
    ELSE LET e == CHOOSE x \in S : TRUE
         IN  DistIn(d, e, id) + SumDist(d, S \ {e}, id)

\* C22: only innings that are scored with a score present are counted: for
\* every player the number of predictions is the number of such innings with
\* a prediction of the player, totalDiff the sum of the distances over them,
\* exactHits the number of them at distance 0, and avgDiff is absent exactly
\* when there is none (otherwise the hundredth nearest to the mean).
C22_OnlyScoredInningsAreCounted ==
    \A d \in BoardRooms : \A row \in Range(buildScoreboard(d)) :
        LET counted == ScoredWith(d, row.playerId)
            n == Cardinality(counted)
            total == SumDist(d, counted, row.playerId)
        IN  /\ row.predictions = n
            /\ row.totalDiff = total
            /\ row.exactHits = Cardinality({ e \in counted : DistIn(d, e, row.playerId) = 0 })
            /\ (row.avgDiff = None) <=> (n = 0)
            /\ n > 0 => 2 * Abs(100 * total - n * Val(row.avgDiff)) <= n

\* A state read has answered a room in which innings 1 of match 1 is open again
\* and still holds a score and a prediction of player 1, while match 2 is
\* scored with a prediction of player 1 off the score.
C22_Witness ==
    /\ resp.op = "state" /\ resp.code = 200
    /\ Len(disk.matches) = 2
    /\ \E i, j \in 1..2 :
          /\ disk.matches[i].id = 1 /\ disk.matches[j].id = 2
          /\ disk.matches[i].innings1.status = "open"
          /\ IsSome(disk.matches[i].innings1.score)
          /\ 1 \in DOMAIN disk.matches[i].predictions.innings1
          /\ ScoredWith(disk, 1) = { <<j, "innings1">> }
          /\ DistIn(disk, <<j, "innings1">>, 1) = 1
    /\ RowOf(buildScoreboard(disk), 1).predictions = 1
    /\ RowOf(buildScoreboard(disk), 1).avgDiff = Some(100)
    /\ RowOf(buildScoreboard(disk), 3).avgDiff = None

\* C23: in the scoreboard the points never increase from one row to the next;
\* of two rows with equal points the one with the lower avgDiff comes first;
\* of two rows with equal points and equal avgDiff the one whose name is
\* first in the alphabet comes first.
C23_BoardOrder ==
    \A d \in BoardRooms :
        LET board == buildScoreboard(d)
        IN  \A i, j \in 1..Len(board) :
                i < j =>
                    /\ board[i].points >= board[j].points
                    /\ ( /\ board[i].points = board[j].points
                         /\ IsSome(board[i].avgDiff) /\ IsSome(board[j].avgDiff) )
                       => Val(board[i].avgDiff) <= Val(board[j].avgDiff)
                    /\ ( /\ board[i].points = board[j].points
                         /\ board[i].avgDiff = board[j].avgDiff )
                       => NameRank(board[i].name) < NameRank(board[j].name)

\* A state read has answered a room (file backend, players stored in the order
\* b, a, c, d) in which b and a have one point each and b the lower avgDiff,
\* and c and d have no prediction.
C23_Witness ==
    /\ resp.op = "state" /\ resp.code = 200
    /\ ~useDb
    /\ LET board == buildScoreboard(disk)
       IN  /\ Len(board) = 4
           /\ board[1].name = "b" /\ board[2].name = "a"
           /\ board[1].points = 1 /\ board[2].points = 1
           /\ board[1].avgDiff = Some(0) /\ board[2].avgDiff = Some(150)
           /\ board[3].name = "c" /\ board[4].name = "d"
           /\ board[3].avgDiff = None /\ board[4].avgDiff = None

\* The room d as it is when the setup request named the fourth player "c2".
SecondSpelling(d) ==
    [d EXCEPT !.players = [ i \in 1..Len(@) |->
                              IF @[i].name = "d" THEN [@[i] EXCEPT !.name = "c2"] ELSE @[i] ]]

Reordered(seq, f) == [ i \in 1..Len(seq) |-> seq[f[i]] ]

\* The scoreboard of d does not depend on the order of its players and of its
\* matches.
OrderIndependent(d) ==
    \A pf \in Perms(Len(d.players)), mf \in Perms(Len(d.matches)) :
        buildScoreboard([d EXCEPT !.players = Reordered(@, pf),
                                  !.matches = Reordered(@, mf)])
            = buildScoreboard(d)

DistinctNames(d) ==
    \A i, j \in 1..Len(d.players) : i # j => d.players[i].name # d.players[j].name

\* C24: for players with pairwise distinct names the scoreboard is the same
\* for every order of the players list and of the matches list, also when
\* rows have no avgDiff.
C24_BoardIsOrderIndependent ==
    \A d \in { disk, SecondSpelling(disk) } : DistinctNames(d) => OrderIndependent(d)

\* ------------------------------------------------------------ the normalizer
\* normalizeMatch on records of any provenance.  Here the store holds one
\* match record as a data file can hold it: canonical, of the single-innings
\* shape with flat fields, with one innings object missing, with predictions
\* absent, not an object, an array, flat or keyed by innings.
StoredTimes == { None, Some(0), Some(1) }
StoredScores == { None, Some(3) }
StoredMaps == { <<>>, 1 :> 3 }

StoredInnings ==
    [ status : {"pending", "open", "locked", "scored"}, lockTime : StoredTimes,
      score : StoredScores ]

StoredPredictions ==
    { None, Some([EmptyPredictions EXCEPT !.shape = "scalar"]),
      Some([EmptyPredictions EXCEPT !.shape = "array"]) }
        \cup { Some([shape |-> "object", innings1 |-> None, innings2 |-> None, flat |-> f]) :
                 f \in StoredMaps }
        \cup { Some([shape |-> "object", innings1 |-> a, innings2 |-> b, flat |-> <<>>]) :
                 a \in { None, Some(1 :> 3) }, b \in { None, Some(<<>>), Some(1 :> 4) } }

StoredTosses == { None, Some([winner |-> "A", decision |-> "bat"]) }

\* Records of the single-innings shape.
LegacyRecords ==
    [ status : { None, Some("open"), Some("locked"), Some("scored") },
      lockTime : StoredTimes, actualScore : StoredScores,
      innings2LockTime : { None, Some(1) }, innings2Score : { None },
      innings1 : { None }, innings2 : { None },
      predictions : StoredPredictions, toss : StoredTosses ]

\* Records with innings1, with or without innings2.
InningsRecords ==
    { [ status |-> None, lockTime |-> None, actualScore |-> None,
        innings2LockTime |-> None, innings2Score |-> None,
        innings1 |-> Some(a), innings2 |-> b, predictions |-> p, toss |-> None ] :
        a \in StoredInnings \ { i \in StoredInnings : i.status = "pending" },
        b \in { None } \cup { Some(i) : i \in { j \in StoredInnings : j.score = None } },
        p \in { None, Some([shape |-> "object", innings1 |-> Some(1 :> 3),
                            innings2 |-> Some(<<>>), flat |-> <<>>]) } }

StoredRecords == LegacyRecords \cup InningsRecords

InitStored ==
    /\ useDb = FALSE
    /\ disk \in StoredRecords
    /\ now = 0
    /\ resp = [ op |-> "none", code |-> 0, error |-> "" ]
    /\ inflight = [ p \in Procs |-> Idle ]

\* normalizeMatch(match, settings) on the stored record.
NormalizeStored ==
    \E clk \in Clocks(2) :
        /\ disk' = normalizeStored(disk, clk[1], clk[2])
        /\ resp' = [ op |-> "normalize", code |-> 200, error |-> "" ]
        /\ now' = clk[2]
        /\ UNCHANGED <<useDb, inflight>>

NextStored == NormalizeStored \/ Tick

SpecStored == InitStored /\ [][NextStored]_vars

\* The innings with its status advanced to locked when it is open and its lock
\* time is present and not after t.
LockPassed(innings, t) ==
    IF innings.status = "open" /\ IsSome(innings.lockTime) /\ Val(innings.lockTime) <= t
    THEN [innings EXCEPT !.status = "locked"]
    ELSE innings

\* C25: at a fixed time normalizing twice gives what normalizing once gives;
\* normalizing a record that normalizeMatch produced changes nothing but the
\* status of open innings whose lock time has passed, which become locked.
C25_NormalizeIsIdempotent ==
    \A t \in now..MaxTime :
        /\ LET once == normalizeStored(disk, t, t)
           IN  normalizeStored(once, t, t) = once
        /\ resp.op = "normalize" =>
              normalizeStored(disk, t, t) =
                  [disk EXCEPT !.innings1 = Some(LockPassed(Val(@), t)),
                               !.innings2 = Some(LockPassed(Val(@), t))]

\* The store holds a normalized record that came in the single-innings shape
\* as scored: innings2 was promoted to open and its lock time has not passed
\* yet, so normalizing again a minute later locks it.
C25_Witness ==
    /\ resp.op = "normalize"
    /\ now = 0
    /\ disk.status = Some("scored")
    /\ Val(disk.innings1).status = "scored"
    /\ Val(disk.innings2) = [status |-> "open", lockTime |-> Some(1), score |-> None]
    /\ normalizeStored(disk, 1, 1) # disk

\* C26: normalizeMatch gives every record both innings objects and both
\* prediction mappings; a flat predictions mapping becomes the innings1
\* predictions and predictions already keyed by both innings are kept.
C26_NormalizedRecordIsComplete ==
    \A t \in now..MaxTime :
        LET r == normalizeStored(disk, t, t)
        IN  /\ IsSome(r.innings1) /\ IsSome(r.innings2)
            /\ IsSome(r.predictions)
            /\ IsSome(Val(r.predictions).innings1) /\ IsSome(Val(r.predictions).innings2)
            /\ ( /\ IsSome(disk.predictions)
                 /\ Val(disk.predictions).shape = "object"
                 /\ Val(disk.predictions).innings1 = None
                 /\ Val(disk.predictions).innings2 = None )
               => /\ Val(r.predictions).innings1 = Some(Val(disk.predictions).flat)
                  /\ Val(r.predictions).innings2 = Some(<<>>)
            /\ ( /\ IsSome(disk.predictions)
                 /\ Val(disk.predictions).shape = "object"
                 /\ IsSome(Val(disk.predictions).innings1)
                 /\ IsSome(Val(disk.predictions).innings2) )
               => r.predictions = disk.predictions
            /\ IsSome(disk.innings1) => Val(r.innings1).score = Val(disk.innings1).score
            /\ disk.innings1 = None =>
                  /\ Val(r.innings1).score = disk.actualScore
                  /\ Val(r.innings1).lockTime = disk.lockTime

\* The store holds a normalized record that came in the single-innings shape
\* (flat status locked, no innings objects) with flat predictions: it has both
\* innings and the flat mapping as its innings1 predictions.
C26_Witness ==
    /\ resp.op = "normalize"
    /\ disk.status = Some("locked") /\ disk.lockTime = Some(1)
    /\ disk.innings1 = Some([status |-> "locked", lockTime |-> Some(1), score |-> None])
    /\ disk.innings2 = Some([status |-> "pending", lockTime |-> None, score |-> None])
    /\ disk.predictions = Some([shape |-> "object", innings1 |-> Some(1 :> 3),
                                 innings2 |-> Some(<<>>), flat |-> <<>>])

\* C27: the auto-lock of normalizeMatch changes an innings only when it is
\* open with a lock time that is present and not after the current time, and
\* then only its status, to locked; nothing else of the record is changed.
C27_AutoLockChangesOnlyOpenPastInnings ==
    \A t \in now..MaxTime :
        LET before == PromoteStored(CoerceStored(disk))
            after == AutoLockStored(before, t, t)
        IN  /\ after = [before EXCEPT !.innings1 = Some(LockPassed(Val(@), t)),
                                      !.innings2 = Some(LockPassed(Val(@), t))]
            /\ after = normalizeStored(disk, t, t)
            /\ \A innings \in { Val(before.innings1), Val(before.innings2) } :
                  LET locked == normalizeInningsStatus(innings, t)
                  IN  /\ locked.lockTime = innings.lockTime
                      /\ locked.score = innings.score
                      /\ locked.status # innings.status =>
                            /\ innings.status = "open" /\ locked.status = "locked"
                            /\ IsSome(innings.lockTime) /\ Val(innings.lockTime) <= t
                      /\ innings.lockTime = None => locked.status = innings.status

\* The store holds a record that came with an open innings1 whose lock time
\* has passed and an open innings2 without lock time: normalized, innings1 is
\* locked and innings2 still open.
C27_Witness ==
    /\ resp.op = "normalize"
    /\ now = 1
    /\ Val(disk.innings1) = [status |-> "locked", lockTime |-> Some(1), score |-> None]
    /\ disk.status = Some("open")
    /\ Val(disk.innings2).status = "pending"
    /\ disk.predictions # None

\* C30: toss sync leaves every match that has a toss as it is; on a match
\* without toss it changes nothing but the toss and the feed id, and a toss
\* it sets has one of the two teams, named in the feed text, as winner and
\* bat or field, worded in the feed text, as decision.
C30_TossSyncOnlyFillsAbsentToss ==
    \A force \in BOOLEAN : \A feed \in AnyTossFeeds :
        LET synced == syncTossFromGoalserve(disk, force, TRUE, feed, now, now).data
        IN  /\ Len(synced.matches) = Len(disk.matches)
            /\ synced.players = disk.players
            /\ \A i \in 1..Len(disk.matches) :
                  LET old == disk.matches[i]
                      new == synced.matches[i]
                  IN  /\ IsSome(old.toss) => new = old
                      /\ new = [old EXCEPT !.toss = new.toss,
                                           !.goalserveMatchId = new.goalserveMatchId]
                      /\ new.toss # old.toss =>
                            /\ old.toss = None /\ IsSome(new.toss)
                            /\ Val(new.toss).winner \in {old.teamA, old.teamB}
                            /\ Val(new.toss).decision \in {"bat", "field"}
                            /\ \E k \in 1..Len(feed.items) :
                                  LET text == feed.items[k].tossText
                                  IN  /\ IsSome(text)
                                      /\ ToLower(Val(new.toss).winner) \in Val(text).mentions
                                      /\ IF Val(new.toss).decision = "bat"
                                         THEN "bat" \in Val(text).words
                                         ELSE Val(text).words \cap {"field", "bowl"} # {}

\* A toss sync has answered a room whose match holds the toss the admin set
\* (B, bat), while the feed names the match with another toss (A, field).
C30_Witness ==
    /\ resp.op = "tossSync" /\ resp.code = 200
    /\ Len(disk.matches) = 1
    /\ disk.matches[1].teamA = "A" /\ disk.matches[1].teamB = "B"
    /\ disk.matches[1].toss = Some([winner |-> "B", decision |-> "bat"])
    /\ \E feed \in RoomTossFeeds :
          /\ feed.ok
          /\ MatchedItem(disk.matches[1], feed.items) # 0
          /\ parseTossText(feed.items[1].tossText, "A", "B")
                = Some([winner |-> "A", decision |-> "field"])

\* --------------------------------------------------------- schedule imports
\* Rooms built by schedule imports: feeds of up to two rows for two fixture
\* numbers, also twice the same number, with a renamed home team; the first
\* match gets a toss, a prediction and a score between imports.
ImportSetupReqs ==
    [ nPlayers : {MinPlayers}, usePin : {FALSE}, adminPin : {""},
      bonusExact : {0}, minScore : MinScoreInputs, maxScore : MaxScoreInputs,
      lockMinutesBeforeStart : LockOffsetInputs, importSchedule : {FALSE} ]

ImportFeedRows ==
    [ MatchNumber : {1, 2}, HomeTeam : {"A", "C"}, AwayTeam : {"B"}, DateUtc : {Some(2)} ]

ImportFeeds == { FailedFeed } \cup { Feed(r) : r \in SeqsUpTo(ImportFeedRows, MaxFixtures) }

NextImport ==
    \/ Setup(ImportSetupReqs, {FailedFeed})
    \/ ScheduleImportUpTo([ adminPin : {""} ], ImportFeeds, MaxFixtures)
    \/ Toss([ id : {1}, adminPin : {""}, winner : {"A"}, decision : {"bat"} ])
    \/ Predict([ id : {1}, innings : {1}, playerId : {1}, score : {Some(4)} ])
    \/ Score([ id : {1}, adminPin : {""}, innings : {1},
               actualScore : {Some(3)}, innings2StartTime : {None} ])
    \/ Tick

SpecImport == Init /\ [][NextImport]_vars

\* C28: no two matches of the room have the same externalId, and importing a
\* feed again right after importing it creates no match.
C28_ExternalIdsAreUnique ==
    /\ \A i, j \in 1..Len(disk.matches) :
          (i # j /\ IsSome(disk.matches[i].externalId))
              => disk.matches[i].externalId # disk.matches[j].externalId
    /\ \A feed \in ImportFeeds :
          LET once == importSchedule(disk, feed).data
              twice == importSchedule(once, feed).data
          IN  Len(twice.matches) = Len(once.matches)

\* The external ids of the rows of a feed.
FedIds(feed, settings) ==
    { normalizeFixtureRow(feed.rows[k], settings).externalId : k \in 1..Len(feed.rows) }

C31_AdminTossIsAlwaysAccepted ==
    \A req \in AnyTossReqs :
        (FindMatch(disk, req.id) # 0 /\ ensureAdmin(disk, req.adminPin))
        => LET old == MatchById(disk, req.id)
               r == toss(disk, req)
           IN  IF req.winner \in {old.teamA, old.teamB} /\ req.decision \in {"bat", "field"}
               THEN /\ r.code = 200 /\ r.save
                    /\ \A d \in Outcome(r) :
                          /\ MatchIds(d) = MatchIds(disk)
                          /\ MatchById(d, req.id) =
                                [old EXCEPT !.toss = Some([winner |-> req.winner,
                                                           decision |-> req.decision])]
               ELSE /\ r.code = 400
                    /\ Outcome(r) = {disk}

\* A toss request was accepted for a match that has a toss, a prediction and
\* a scored innings.
C31_Witness ==
    /\ resp = [op |-> "toss", code |-> 200, error |-> ""]
    /\ \E i \in 1..Len(disk.matches) :
          /\ IsSome(disk.matches[i].toss)
          /\ disk.matches[i].innings1.status = "scored"
          /\ DOMAIN disk.matches[i].predictions.innings1 # {}
          /\ disk.matches[i].innings2.status = "locked"

\* ------------------------------------------------------ reopening an innings
\* C33: after the admin has reopened one innings of a match whose toss is
\* set, a prediction for that innings by a player of the room with a score
\* within the bounds is accepted, whether or not the lock time of the innings
\* has passed.
C33_ReopenedInningsTakesPredictions ==
    \A req \in AnyReopenReqs, clk \in Clocks(2) :
        ( /\ req.innings \in {1, 2}
          /\ FindMatch(disk, req.id) # 0
          /\ ensureAdmin(disk, req.adminPin)
          /\ IsSome(getBattingTeams(MatchById(disk, req.id))) )
        => \A d \in Outcome(reopen(disk, req, clk[1], clk[2])) :
              \A p \in AnyPredictReqs :
                  ( /\ p.id = req.id
                    /\ p.innings = req.innings
                    /\ p.playerId \in PlayerIdsOf(d.players)
                    /\ ScoreInBounds(p.score, d.settings) )
                  => predict(d, p, clk[2], clk[2], clk[2]).code = 200

\* ------------------------------------------------------- scores and results
\* C34: in every stored room an innings whose status is not scored has no
\* score and no stored result.
C34_ScoreOnlyWhileScored ==
    \A i \in 1..Len(disk.matches), key \in {"innings1", "innings2"} :
        disk.matches[i][key].status # "scored"
        => /\ disk.matches[i][key].score = None
           /\ \/ disk.matches[i].result = None
              \/ Val(disk.matches[i].result)[key] = None

\* The room without its stored results.
WithoutResults(d) ==
    [d EXCEPT !.matches = [ i \in 1..Len(@) |-> [@[i] EXCEPT !.result = None] ]]

\* C35: in every stored room, the stored result of every scored innings is
\* computeInningsResult of its score, its predictions and the players, and
\* the scoreboard is the one built without the stored results.
C35_StoredResultIsComputedResult ==
    /\ \A i \in 1..Len(disk.matches), key \in {"innings1", "innings2"} :
          disk.matches[i][key].status = "scored"
          => /\ IsSome(disk.matches[i].result)
             /\ Val(disk.matches[i].result)[key] =
                   computeInningsResult(disk.matches[i][key].score,
                                        disk.matches[i].predictions[key], disk.players)
    /\ buildScoreboard(disk) = buildScoreboard(WithoutResults(disk))

\* An innings with the predictions of two players was scored: the stored
\* result names the one winner, and the other match is scored too.
C35_Witness ==
    /\ resp = [op |-> "score", code |-> 200, error |-> ""]
    /\ Len(disk.matches) = 2
    /\ \E i \in 1..2 :
          /\ disk.matches[i].innings1.status = "scored"
          /\ DOMAIN disk.matches[i].predictions.innings1 = {1, 2}
          /\ Len(Val(Val(disk.matches[i].result).innings1).winners) = 1
          /\ disk.matches[3 - i].innings1.status = "scored"

\* C36: every row of the scoreboard of a stored room, read as it is or as a
\* state read normalizes it, has points = wins + bonusExact * exactHits and
\* exactHits <= wins <= predictions.
C36_RowArithmetic ==
    \A d \in BoardRooms :
        \A row \in Range(buildScoreboard(d)) :
            /\ row.points = row.wins + d.settings.bonusExact * row.exactHits
            /\ row.exactHits <= row.wins
            /\ row.wins <= row.predictions

\* A board with bonus 2 on which one player won two innings, one of them
\* exactly (4 points), and another won one of two.
C36_Witness ==
    /\ disk.settings.bonusExact = 2
    /\ \E row, other \in Range(buildScoreboard(disk)) :
          /\ row.wins = 2 /\ row.exactHits = 1 /\ row.points = 4
          /\ other.wins = 1 /\ other.predictions = 2

\* ------------------------------------------------------ predictions and toss
HoldsPrediction(match) ==
    DOMAIN match.predictions.innings1 # {} \/ DOMAIN match.predictions.innings2 # {}

\* C37: every match of the stored room that holds a prediction has a toss
\* that gives the batting order, and no request takes the toss of a match
\* away.
C37_PredictionsNeedToss ==
    /\ \A i \in 1..Len(disk.matches) :
          HoldsPrediction(disk.matches[i])
          => /\ IsSome(disk.matches[i].toss)
             /\ IsSome(getBattingTeams(disk.matches[i]))
    /\ \A x \in PredictResults \cup LockResults \cup TossResults \cup ScoreResults
                \cup ReopenResults \cup ImportResults
                \cup Results({ tossSync(disk, req, TRUE, feed, clk[1], clk[2]) :
                                 req \in AnyAdminReqs, feed \in RoomTossFeeds,
                                 clk \in Clocks(2) })
                \cup Results({ getState(disk, TRUE, feed, clk) :
                                 feed \in RoomTossFeeds,
                                 clk \in Clocks(2 * Len(disk.matches) + 2) }) :
          \A id \in MatchIds(disk) \cap MatchIds(x.d) :
              IsSome(MatchById(disk, id).toss) => IsSome(MatchById(x.d, id).toss)

\* A whole-match reopen was answered for a match that holds a prediction and
\* the toss, after an import renamed its home team.
C37_Witness ==
    /\ resp = [op |-> "reopen", code |-> 200, error |-> ""]
    /\ \E i \in 1..Len(disk.matches) :
          /\ HoldsPrediction(disk.matches[i])
          /\ IsSome(disk.matches[i].toss)
          /\ disk.matches[i].teamA = "C"
          /\ disk.matches[i].innings1.status = "open"

\* ---------------------------------------------------------- the score bounds
\* Rooms set up with bounds that are whole numbers and bounds that are not
\* (minScore 1 or 1.5, maxScore 2 or 2.5), one match, predictions and scores
\* from 0.5 to 3.
BoundsSetupReqs ==
    [ nPlayers : {MinPlayers}, usePin : {FALSE}, adminPin : {""},
      bonusExact : {0}, minScore : {2, 3}, maxScore : {4, 5},
      lockMinutesBeforeStart : LockOffsetInputs, importSchedule : {FALSE} ]

BoundScores == { Some(h) : h \in 1..6 }

NextBounds ==
    \/ Setup(BoundsSetupReqs, {FailedFeed})
    \/ CreateMatch([ adminPin : {""}, teamA : {"A"}, teamB : {"B"},
                     matchDate : {None}, lockTime : {None} ])
    \/ Toss([ id : {1}, adminPin : {""}, winner : {"A"}, decision : {"bat"} ])
    \/ Predict([ id : {1}, innings : {1}, playerId : 1..2, score : BoundScores ])
    \/ Score([ id : {1}, adminPin : {""}, innings : InningsInputs,
               actualScore : BoundScores, innings2StartTime : {None} ])

SpecBounds == Init /\ [][NextBounds]_vars

\* The stored whole number v lies within the bounds of the room.
WithinBounds(v, settings) == settings.minScore <= 2 * v /\ 2 * v <= settings.maxScore

\* C38: every stored prediction and every recorded innings score lies within
\* the bounds minScore and maxScore of the room.
C38_StoredScoresWithinBounds ==
    \A i \in 1..Len(disk.matches), key \in {"innings1", "innings2"} :
        /\ \A id \in DOMAIN disk.matches[i].predictions[key] :
              WithinBounds(disk.matches[i].predictions[key][id], disk.settings)
        /\ IsSome(disk.matches[i][key].score)
              => WithinBounds(Val(disk.matches[i][key].score), disk.settings)

\* ------------------------------------------------------- the sync throttle
\* C39: when a state read has fetched the toss feed, a state read that
\* follows before the sync interval has elapsed does not fetch it, whatever
\* the feed answered; and no sync, forced or not, fetches the feed when no
\* match without toss lies within the window.
C39_UnforcedFetchesAreThrottled ==
    /\ \A feed \in FailingFeeds :
          LET first == syncTossFromGoalserve(NormalizeAll(disk, NowClock(disk)),
                                             FALSE, TRUE, feed, now, now)
          IN  first.fetched
              => \A d \in Outcome(getState(disk, TRUE, feed, NowClock(disk))) :
                    ~NeedsFetch(d)
    /\ \A force \in BOOLEAN, feed \in FailingFeeds :
          (\A i \in 1..Len(disk.matches) : ~TossCandidate(disk.matches[i], now))
          => ~syncTossFromGoalserve(disk, force, TRUE, feed, now, now).fetched

====
